---- MODULE Spec2Model ----
(***************************************************************************)
(* Model of the knowledge-graph analysis engine of                         *)
(* src/path/research_paths.py: the node registry and the link graph read   *)
(* from the documents (get_node_metadata, build_explicit_link_graph), the  *)
(* probabilistic knowledge-gap scorer                                      *)
(* (analyze_probabilistic_knowledge_gaps) and the trajectory synthesizer   *)
(* (synthesize_and_plot_trajectory).                                       *)
(*                                                                         *)
(* Real-valued scores are fixed-point integers: Scale units make 1.0, so   *)
(* one unit is 0.0001.  Weighted sums keep that unit.                      *)
(***************************************************************************)
EXTENDS Integers, Sequences, FiniteSets, TLC

VARIABLES
    pc,                     \* which stage of the pipeline has run
    files,                  \* MARKDOWN_FILES: <<[name, content]>>, content a token list
    file_pos,               \* how many files get_node_metadata has been through
    first_run,              \* what the three builders returned in an earlier run
    abundance_matrix,       \* [kept concepts \X document names -> count]
    pagerank_attr,          \* nodes of G_directed that carry a 'pagerank' attribute
    community_attr,         \* nodes of G_directed that carry a 'community' attribute
    innovation_status,      \* how analyze_innovation_strategies returned
    innovation_pagerank,    \* the nodes whose pagerank that stage read
    node_list_status,       \* how create_and_save_node_list returned
    node_list_defaulted,    \* the nodes it listed with the default pagerank 0.0
    centrality_status,      \* how analyze_centrality_and_communities returned
    node_info,              \* node registry: concept id -> [category]
    G_nodes,                \* nodes of G_directed
    G_edges,                \* edges of G_directed, <<source, target>>
    cooc_index,             \* index (= columns) of cooccurrence_matrix
    cooccurrence_matrix,    \* [cooc_index \X cooc_index -> score]
    gap_status,             \* how analyze_probabilistic_knowledge_gaps returned
    gap_df,                 \* the gap list it returned (<<>> when it returned None)
    start_node_id,          \* arguments of synthesize_and_plot_trajectory
    end_node_id,
    max_path_len_for_search,
    min_cooc_for_edge_in_path,
    top_n_paths_to_save,
    traj_status,            \* how synthesize_and_plot_trajectory returned
    G_cooc_weighted,        \* edges of the pruned co-occurrence graph, <<u, v>>
    all_found_paths,        \* the simple paths found, in search order
    scored_paths_list,      \* the records of the scored paths, in search order
    df_paths_to_save,       \* the table before truncation
    csv_rows,               \* the rows written to top_trajectories_*.csv
    best_path_nodes_for_vis,
    main_path_edges_list,   \* edges of the best path drawn in vis_G
    common_bridge_nodes,    \* the (at most 5) bridge nodes attached to vis_G
    support_edges,          \* the support_link edges added to vis_G
    orch_pc,                \* where main / run_all of the script orchestrator stands
    categories,             \* args.categories as a set ({} when the flag is absent)
    skip_optional,          \* args.skip_optional
    dry_run,                \* args.dry_run
    no_launch,              \* args.no_launch
    status,                 \* self.status: script name -> ScriptStatus value
    scripts_to_run,         \* the filtered script list run_all loops over
    script_index,           \* the loop's position i in scripts_to_run (from 1)
    processed,              \* script name -> number of loop iterations spent on it
    passed_checks,          \* scripts that reached the "Script location" line
    executed,               \* scripts execute_script has been called for
    prompted,               \* scripts whose failure raised the continue prompt
    response,               \* the last answer typed at the continue prompt
    stopped,                \* whether the loop was left by the break
    summary_printed,        \* print_final_summary has run
    report_saved,           \* save_execution_report has run
    launched                \* launch_discovery_engine has been called

vars == <<pc, files, file_pos, first_run, abundance_matrix, pagerank_attr, community_attr,
          innovation_status, innovation_pagerank, node_list_status,
          node_list_defaulted, centrality_status, node_info, G_nodes, G_edges, cooc_index, cooccurrence_matrix,
          gap_status, gap_df, start_node_id, end_node_id,
          max_path_len_for_search, min_cooc_for_edge_in_path,
          top_n_paths_to_save, traj_status, G_cooc_weighted,
          all_found_paths, scored_paths_list, df_paths_to_save, csv_rows,
          best_path_nodes_for_vis, main_path_edges_list, common_bridge_nodes,
          support_edges, orch_pc, categories, skip_optional, dry_run, no_launch,
          status, scripts_to_run, script_index, processed, passed_checks,
          executed, prompted, response, stopped, summary_printed, report_saved,
          launched>>

inputVars == <<node_info, G_nodes, G_edges, cooc_index, cooccurrence_matrix,
               start_node_id, end_node_id, max_path_len_for_search,
               min_cooc_for_edge_in_path, top_n_paths_to_save>>

corpusVars == <<files, file_pos, first_run>>

attrVars == <<pagerank_attr, community_attr>>

stageVars == <<abundance_matrix, innovation_status, innovation_pagerank,
               node_list_status, node_list_defaulted, centrality_status>>

gapVars == <<gap_status, gap_df>>

trajVars == <<traj_status, G_cooc_weighted, all_found_paths, scored_paths_list, df_paths_to_save,
              csv_rows, best_path_nodes_for_vis, main_path_edges_list,
              common_bridge_nodes, support_edges>>

argVars == <<categories, skip_optional, dry_run, no_launch>>

orchVars == <<orch_pc, argVars, status, scripts_to_run, script_index, processed,
              passed_checks, executed, prompted, response, stopped,
              summary_printed, report_saved, launched>>

----------------------------------------------------------------------------
(* The script orchestrator, src/scripts/main.py: statuses and script table *)

\* class ScriptStatus, lines 25-30
PENDING == "pending"
RUNNING == "running"
COMPLETED == "completed"
FAILED == "failed"
SKIPPED == "skipped"

ScriptStatus == {PENDING, RUNNING, COMPLETED, FAILED, SKIPPED}

\* self.scripts, lines 52-114, in execution order
scripts ==
    << [name |-> "fast-setup", category |-> "setup",
        dependencies |-> <<>>, optional |-> FALSE],
       [name |-> "verify-de-ready", category |-> "setup",
        dependencies |-> <<"fast-setup">>, optional |-> FALSE],
       [name |-> "import-concepts", category |-> "data",
        dependencies |-> <<"verify-de-ready">>, optional |-> TRUE],
       [name |-> "research-pipeline", category |-> "workflow",
        dependencies |-> <<"verify-de-ready">>, optional |-> TRUE],
       [name |-> "export-graph", category |-> "data",
        dependencies |-> <<"verify-de-ready">>, optional |-> TRUE],
       [name |-> "deploy", category |-> "deployment",
        dependencies |-> <<"verify-de-ready">>, optional |-> TRUE] >>

ScriptNames == {scripts[k].name : k \in DOMAIN scripts}

\* choices of --categories, lines 625-630
CategoryChoices == {"setup", "data", "workflow", "deployment"}

\* self.status = {script.name: ScriptStatus.PENDING ...}, line 116
initial_status == [n \in ScriptNames |-> PENDING]

\* No answer has been typed at the continue prompt.
NoResponse == "<none>"

\* The orchestrator has not been started: the state every run of the
\* research-path pipeline is in.
OrchIdle ==
    /\ orch_pc = "idle"
    /\ categories = {}
    /\ skip_optional = FALSE
    /\ dry_run = FALSE
    /\ no_launch = FALSE
    /\ status = initial_status
    /\ scripts_to_run = <<>>
    /\ script_index = 0
    /\ processed = [n \in ScriptNames |-> 0]
    /\ passed_checks = {}
    /\ executed = {}
    /\ prompted = {}
    /\ response = NoResponse
    /\ stopped = FALSE
    /\ summary_printed = FALSE
    /\ report_saved = FALSE
    /\ launched = FALSE

----------------------------------------------------------------------------
(* Program constants *)

\* One unit of score is 1/Scale; 1.0 is Scale.
Scale == 10000

\* CATEGORY_ORDER, line 23
CATEGORY_ORDER ==
    <<"Theory", "Mechanism", "Phenomenon", "Method", "Material", "Application">>

\* The categories of NODE_CATEGORIES.values(), lines 18-22
NODE_CATEGORIES ==
    {"Application", "Material", "Mechanism", "Method", "Phenomenon", "Theory"}

\* "if predicted_link_strength > 1.0", line 473
GapThreshold == 10000

\* bridge_bonus = 1.5, line 464, and 1.0, line 467
TheoryApplicationBonus == 15000
MaterialApplicationBonus == 10000

\* min_cooc_for_edge_in_path=0.3, line 258
DefaultMinCooc == 3000

\* common_bridge_nodes[:5], line 342
BridgeLimit == 5

\* max_path_len_for_search=4, line 257, and top_n_paths_to_save=20, line 259
DefaultMaxPathLen == 4
DefaultTopN == 20

----------------------------------------------------------------------------
(* Bounds of the model *)

\* The concept ids of the modelled corpora.  Ids are numbers so that the
\* sorted order of the matrix columns and the insertion order of the registry
\* are both the numeric order.
Concepts == {1, 2, 3}

\* An id that no document defines (a start or end concept that is missing).
UnknownId == 9

\* At most this many edges in the link graph of the gap-scorer runs.
MaxEdges == 2

\* The documents of the modelled corpora: the first has at most MaxTokens
\* tokens and the one read after it at most MaxLaterTokens; a token is a
\* header line of a concept, a '### ' marker that no concept id follows, or a
\* cross-reference to a concept or to an id that no document defines.
MaxTokens == 3
MaxLaterTokens == 1
CorpusConcepts == {1, 2}
FirstFileNames == {"theoretical.md"}
LaterFileNames == {"applications.md", "notes.md"}

\* The categories and matrix entries the gap-scorer inputs are drawn from.
GapCategories == {"Theory", "Method", "Material", "Application"}
GapCoocValues == {-5000, 4, 5000}

\* The inputs of the trajectory runs: three categories, matrix entries at the
\* pruning threshold (0.3) and above it, a few candidate links, and for each of
\* the two parameters the value 1 and the default.  The entries are multiples
\* of 6 units so that the mean over 1, 2 or 3 edges is exact, and one of them
\* is not a multiple of 0.001, so that rounding to 3 places changes it.
TrajCategories == {"Theory", "Method", "Application"}
TrajCoocValues == {3000, 5406, 9000}
TrajLinks == {<<1, 2>>, <<1, 3>>, <<2, 3>>}
TrajEndpoints == {<<1, 2>>, <<2, 2>>, <<1, UnknownId>>, <<UnknownId, 2>>}
MaxPathLenValues == {1, DefaultMaxPathLen}

\* The inputs of the trajectory runs in which the minimum weight varies too:
\* the default, zero and a negative minimum, over matrices with a negative and
\* a positive entry (Spearman correlations lie between -1 and 1).
MinCoocValues == {-Scale, 0, DefaultMinCooc}
SignedCoocValues == {-5004, 5406}

\* The inputs of the trajectory runs that exercise the bridge nodes: beside
\* start (1) and end (2), six concepts that each may be a successor of start
\* only, of both, or of neither, so that more than 5 can be common; the matrix
\* is over the first three concepts.
BridgeCandidates == 3..8
BridgeLinkKinds == {"none", "start", "both"}
BridgeMatrixConcepts == {1, 2, 3}
BridgeCoocValues == {3000, 9000}
TopNValues == {1, DefaultTopN}

----------------------------------------------------------------------------
(* Helpers *)

Max(a, b) == IF a >= b THEN a ELSE b
Min(a, b) == IF a <= b THEN a ELSE b

\* The elements of a finite set of numbers in increasing order.
RECURSIVE SortedSeq(_)
SortedSeq(S) ==
    IF S = {} THEN <<>>
    ELSE LET m == CHOOSE x \in S : \A y \in S : x <= y
         IN  <<m>> \o SortedSeq(S \ {m})

RECURSIVE Flatten(_)
Flatten(ss) == IF ss = <<>> THEN <<>> ELSE Head(ss) \o Flatten(Tail(ss))

Range(s) == {s[i] : i \in 1..Len(s)}

\* Python's round(x, 3) on a score: to the nearest multiple of 0.001 (10
\* units), an exact half going to the even neighbour.
Round3(x) ==
    LET q == x \div 10
        r == x % 10
    IN  IF r < 5 THEN 10 * q
        ELSE IF r > 5 THEN 10 * (q + 1)
        ELSE IF q % 2 = 0 THEN 10 * q ELSE 10 * (q + 1)

\* DataFrame.sort_values(by=key, ascending=False) on a short table: rows in
\* non-increasing key order, rows of equal key in their original order.
\* keys[i] is the key of rows[i]; the result is built from row numbers.
RECURSIVE InsertDesc(_, _, _)
InsertDesc(i, sorted, keys) ==
    IF sorted = <<>> THEN <<i>>
    ELSE IF keys[Head(sorted)] >= keys[i]
         THEN <<Head(sorted)>> \o InsertDesc(i, Tail(sorted), keys)
         ELSE <<i>> \o sorted

RECURSIVE SortDescFrom(_, _, _)
SortDescFrom(i, acc, keys) ==
    IF i > Len(keys) THEN acc
    ELSE SortDescFrom(i + 1, InsertDesc(i, acc, keys), keys)

sort_values_desc(rows, keys) ==
    LET order == SortDescFrom(1, <<>>, keys)
    IN  [k \in 1..Len(rows) |-> rows[order[k]]]

\* DataFrame.head(n)
head(rows, n) == SubSeq(rows, 1, Min(n, Len(rows)))

----------------------------------------------------------------------------
(* The directed link graph and the co-occurrence matrix *)

has_node(n) == n \in G_nodes
has_edge(u, v) == <<u, v>> \in G_edges
successors(u) == {w \in G_nodes : <<u, w>> \in G_edges}

\* cooccurrence_matrix.empty
matrix_empty == cooc_index = {}

\* The registry keys in dict order.
registry_keys == SortedSeq(DOMAIN node_info)

----------------------------------------------------------------------------
(* analyze_probabilistic_knowledge_gaps, lines 420-515 *)

\* nodes_by_cat[cat], lines 433-434
nodes_by_cat(cat) ==
    IF cat \in NODE_CATEGORIES
    THEN SelectSeq(registry_keys,
                   LAMBDA n : node_info[n].category = cat /\ n \in G_nodes)
    ELSE <<>>

\* Variant: combinations_with_replacement, which also pairs a category with itself.
CategoryPairsWithReplacement ==
    Flatten([i \in 1..Len(CATEGORY_ORDER) |->
               [j \in 1..(Len(CATEGORY_ORDER) - i + 1) |->
                  <<CATEGORY_ORDER[i], CATEGORY_ORDER[i + j - 1]>>]])

\* combinations(CATEGORY_ORDER, 2), line 438
CategoryPairs ==
    Flatten([i \in 1..Len(CATEGORY_ORDER) |->
               [j \in 1..(Len(CATEGORY_ORDER) - i) |->
                  <<CATEGORY_ORDER[i], CATEGORY_ORDER[i + j]>>]])

\* The (u, v) the three nested loops of lines 438-441 visit, in order.
candidate_pairs ==
    Flatten([k \in 1..Len(CategoryPairs) |->
        LET us == nodes_by_cat(CategoryPairs[k][1])
            vs == nodes_by_cat(CategoryPairs[k][2])
        IN  Flatten([i \in 1..Len(us) |->
                       [j \in 1..Len(vs) |-> <<us[i], vs[j]>>]])])

\* Variant: only the edge u -> v is looked for.
LinkedForward(u, v) == has_edge(u, v)

\* Line 447: a link already exists in either direction.
already_linked(u, v) == has_edge(u, v) \/ has_edge(v, u)

\* The guards of lines 443 and 447: the pair is scored at all.
is_scored(u, v) ==
    /\ ~(u = v \/ ~has_node(u) \/ ~has_node(v))
    /\ ~already_linked(u, v)

\* Score 1, lines 450-452
topo_score(u, v) == Cardinality(successors(u) \cap successors(v))

\* Score 2, lines 455-457
cooc_score(u, v) ==
    IF u \in cooc_index /\ v \in cooc_index
    THEN cooccurrence_matrix[<<u, v>>]
    ELSE 0

\* Variant: the Theory-Application bridge gets the lower bonus.
BonusFlat(cu, cv) ==
    IF (cu = "Theory" /\ cv = "Application") \/ (cv = "Theory" /\ cu = "Application")
    THEN MaterialApplicationBonus
    ELSE IF (cu = "Material" /\ cv = "Application") \/ (cv = "Material" /\ cu = "Application")
    THEN MaterialApplicationBonus
    ELSE 0

\* Score 3, lines 460-467
category_bridge_bonus(cu, cv) ==
    IF (cu = "Theory" /\ cv = "Application") \/ (cv = "Theory" /\ cu = "Application")
    THEN TheoryApplicationBonus
    ELSE IF (cu = "Material" /\ cv = "Application") \/ (cv = "Material" /\ cu = "Application")
    THEN MaterialApplicationBonus
    ELSE 0

bridge_bonus(u, v) ==
    category_bridge_bonus(node_info[u].category, node_info[v].category)

\* Variant: the co-occurrence score is added without the clip at 0.
StrengthUnclipped(u, v) ==
    (2 * Scale * topo_score(u, v)) + cooc_score(u, v) + bridge_bonus(u, v)

\* Line 471
predicted_link_strength(u, v) ==
    (2 * Scale * topo_score(u, v)) + Max(0, cooc_score(u, v)) + bridge_bonus(u, v)

\* Variant: a strength equal to the threshold is kept.
AtLeastThreshold(strength) == strength >= GapThreshold

\* Line 473
exceeds_threshold(strength) == strength > GapThreshold

\* Variant: the clipped score is stored.
StoredClipped(u, v) == Round3(Max(0, cooc_score(u, v)))

\* 'Cooccurrence_Score': round(cooc_score, 3), line 478
stored_cooccurrence_score(u, v) == Round3(cooc_score(u, v))

\* The record of lines 474-481

gap_record(u, v) ==
    [Source_Category         |-> node_info[u].category,
     Source_Node             |-> u,
     Target_Category         |-> node_info[v].category,
     Target_Node             |-> v,
     Topological_Score       |-> topo_score(u, v),
     Cooccurrence_Score      |-> stored_cooccurrence_score(u, v),
     Bridge_Bonus            |-> bridge_bonus(u, v),
     Predicted_Link_Strength |-> Round3(predicted_link_strength(u, v))]

\* all_potential_links after the loops, lines 435-481
all_potential_links ==
    LET kept == SelectSeq(candidate_pairs,
                    LAMBDA p : /\ is_scored(p[1], p[2])
                               /\ exceeds_threshold(predicted_link_strength(p[1], p[2])))
    IN  [i \in 1..Len(kept) |-> gap_record(kept[i][1], kept[i][2])]

\* The guard of line 429
gap_inputs_empty == G_nodes = {} \/ matrix_empty

strength_column(rows) == [i \in 1..Len(rows) |-> rows[i].Predicted_Link_Strength]

analyze_probabilistic_knowledge_gaps ==
    /\ pc = "gaps"
    /\ \/ /\ gap_inputs_empty                          \* lines 429-431
          /\ gap_status' = "skipped"
          /\ gap_df' = <<>>
       \/ /\ ~gap_inputs_empty
          /\ all_potential_links = <<>>                \* lines 483-485
          /\ gap_status' = "none"
          /\ gap_df' = <<>>
       \/ /\ ~gap_inputs_empty
          /\ all_potential_links # <<>>                \* lines 487-515
          /\ gap_status' = "saved"
          /\ gap_df' = sort_values_desc(all_potential_links,
                                         strength_column(all_potential_links))
    /\ pc' = "gaps_done"
    /\ UNCHANGED <<orchVars, corpusVars, attrVars, stageVars, inputVars, trajVars>>

----------------------------------------------------------------------------
(* Inputs *)

\* The unordered pairs of a set of ids, as <<smaller, larger>>.
Pairs(S) == {p \in S \X S : p[1] < p[2]}

\* The symmetric matrix over index S whose entry for the pair p is vals[p].
SymmetricMatrix(S, vals) ==
    [p \in S \X S |->
        IF p[1] = p[2] THEN Scale
        ELSE IF p[1] < p[2] THEN vals[p] ELSE vals[<<p[2], p[1]>>]]

TrajIdle ==
    /\ traj_status = "idle"
    /\ G_cooc_weighted = {}
    /\ all_found_paths = <<>>
    /\ scored_paths_list = <<>>
    /\ df_paths_to_save = <<>>
    /\ csv_rows = <<>>
    /\ best_path_nodes_for_vis = <<>>
    /\ main_path_edges_list = <<>>
    /\ common_bridge_nodes = {}
    /\ support_edges = {}

GapIdle ==
    /\ gap_status = "idle"
    /\ gap_df = <<>>

\* The documents have been read: the registry and the link graph are built.
CorpusIdle ==
    /\ files = <<>>
    /\ file_pos = 0
    /\ first_run = <<>>

\* No stage of main has set an attribute of the graph or returned.
StagesIdle ==
    /\ abundance_matrix = <<>>
    /\ pagerank_attr = {}
    /\ community_attr = {}
    /\ innovation_status = "idle"
    /\ innovation_pagerank = {}
    /\ node_list_status = "idle"
    /\ node_list_defaulted = {}
    /\ centrality_status = "idle"

\* A registry over any subset of the concepts (get_node_metadata), the link
\* graph over exactly the registry (build_explicit_link_graph, line 42), every
\* edge target a referenced concept, and a symmetric matrix over the referenced
\* concepts (build_cooccurrence_data).
InitGap ==
    /\ pc = "gaps"
    /\ \E K \in SUBSET Concepts :
       \E cats \in [K -> GapCategories] :
       \E S \in SUBSET K :
       \E E \in SUBSET (K \X S) :
       \E vals \in [Pairs(S) -> GapCoocValues] :
          /\ Cardinality(E) <= MaxEdges
          /\ node_info = [n \in K |-> [category |-> cats[n]]]
          /\ G_nodes = K
          /\ G_edges = E
          /\ cooc_index = S
          /\ cooccurrence_matrix = SymmetricMatrix(S, vals)
    /\ start_node_id = UnknownId
    /\ end_node_id = UnknownId
    /\ max_path_len_for_search = 0
    /\ min_cooc_for_edge_in_path = DefaultMinCooc
    /\ top_n_paths_to_save = 0
    /\ CorpusIdle
    /\ StagesIdle
    /\ GapIdle
    /\ TrajIdle
    /\ OrchIdle

NextGap == analyze_probabilistic_knowledge_gaps

SpecGap == InitGap /\ [][NextGap]_vars

----------------------------------------------------------------------------
(* Properties of the gap scorer, stated on its inputs and its gap list *)

GapsDone == pc = "gaps_done"

GapRows == Range(gap_df)

CategoryOf(n) == node_info[n].category

\* The pair {u, v} has a record in the gap list.
InGapList(u, v) ==
    \E r \in GapRows : {r.Source_Node, r.Target_Node} = {u, v}

CommonSuccessors(u, v) ==
    {w \in G_nodes : <<u, w>> \in G_edges /\ <<v, w>> \in G_edges}

\* M[u][v], counted as 0 when u or v is not in the matrix.
MatrixEntry(u, v) ==
    IF {u, v} \subseteq cooc_index THEN cooccurrence_matrix[<<u, v>>] ELSE 0

\* The bridge bonus as a table over unordered category pairs.
BridgeTable(cats) ==
    IF cats = {"Theory", "Application"} THEN 15000
    ELSE IF cats = {"Material", "Application"} THEN 10000
    ELSE 0

\* 2 * |successors(u) \cap successors(v)| + max(0, M[u][v]) + bridge bonus
StatedStrength(u, v) ==
    (2 * Scale * Cardinality(CommonSuccessors(u, v)))
        + (IF MatrixEntry(u, v) > 0 THEN MatrixEntry(u, v) ELSE 0)
        + BridgeTable({CategoryOf(u), CategoryOf(v)})

Unlinked(u, v) == <<u, v>> \notin G_edges /\ <<v, u>> \notin G_edges

\* A pair the scorer is stated to report.
StatedGap(u, v) ==
    /\ u # v
    /\ CategoryOf(u) # CategoryOf(v)
    /\ Unlinked(u, v)
    /\ StatedStrength(u, v) > Scale

\* C1: no record of the gap list has a link edge between its source and its
\* target, in either direction.
C1_NoGapBetweenLinkedConcepts ==
    GapsDone =>
        \A r \in GapRows :
            /\ <<r.Source_Node, r.Target_Node>> \notin G_edges
            /\ <<r.Target_Node, r.Source_Node>> \notin G_edges

\* C1 witness: a gap list was saved while a pair of different categories whose
\* stated strength exceeds 1.0 is left out because its target links back to
\* its source.
C1_Witness ==
    /\ GapsDone
    /\ gap_status = "saved"
    /\ \E u, v \in G_nodes :
          /\ CategoryOf(u) = "Theory" /\ CategoryOf(v) = "Application"
          /\ <<v, u>> \in G_edges /\ <<u, v>> \notin G_edges
          /\ StatedStrength(u, v) > Scale
          /\ ~InGapList(u, v)

\* C2 as stated: whatever the matrix contains, every pair of distinct registry
\* concepts of different categories, unlinked, with stated strength above 1.0,
\* is in the returned gap list.
C2_Original_EveryStatedGapReturned ==
    GapsDone =>
        \A u, v \in DOMAIN node_info : StatedGap(u, v) => InGapList(u, v)

\* C2 amended: when the co-occurrence matrix is not empty, every pair of
\* distinct registry concepts that are nodes of the link graph, of different
\* categories, unlinked, with stated strength above 1.0, is in the gap list.
C2_EveryStatedGapReturnedUnlessMatrixEmpty ==
    (GapsDone /\ cooc_index # {}) =>
        \A u, v \in DOMAIN node_info \cap G_nodes :
            StatedGap(u, v) => InGapList(u, v)

\* C2 witness: scenario B, a Material and an Application concept, unlinked,
\* with no common successor and co-occurrence 0.5, reported with strength 1.5.
C2_Witness ==
    /\ GapsDone
    /\ \E r \in GapRows :
          /\ r.Source_Category = "Material" /\ r.Target_Category = "Application"
          /\ r.Topological_Score = 0
          /\ MatrixEntry(r.Source_Node, r.Target_Node) = 5000
          /\ r.Predicted_Link_Strength = 15000

\* C3: every record of the gap list is of a pair whose predicted strength is
\* strictly above 1.0.
C3_OnlyAboveThreshold ==
    GapsDone =>
        \A r \in GapRows : StatedStrength(r.Source_Node, r.Target_Node) > Scale

\* C3 witness: a gap list was saved and a pair of different categories,
\* unlinked, whose predicted strength is exactly 1.0 is not in it.
C3_Witness ==
    /\ GapsDone
    /\ gap_status = "saved"
    /\ \E u, v \in G_nodes :
          /\ u # v /\ CategoryOf(u) # CategoryOf(v) /\ Unlinked(u, v)
          /\ StatedStrength(u, v) = Scale
          /\ ~InGapList(u, v)

\* C4: the strength recorded for a pair is 2 * common successors + max(0,
\* M[u][v]) + bridge bonus, rounded to 3 decimals, with the bonus 1.5 for
\* {Theory, Application}, 1.0 for {Material, Application} and 0 otherwise.
C4_RecordedStrength ==
    GapsDone =>
        \A r \in GapRows :
            /\ r.Predicted_Link_Strength =
                  Round3(StatedStrength(r.Source_Node, r.Target_Node))
            /\ r.Bridge_Bonus = BridgeTable({r.Source_Category, r.Target_Category})
            /\ r.Topological_Score =
                  Cardinality(CommonSuccessors(r.Source_Node, r.Target_Node))

\* C4 witness: a record of a Theory-Application pair with a common successor
\* and a negative matrix entry: 2 * 1 + 0 + 1.5 = 3.5.
C4_Witness ==
    /\ GapsDone
    /\ \E r \in GapRows :
          /\ {r.Source_Category, r.Target_Category} = {"Theory", "Application"}
          /\ r.Topological_Score = 1
          /\ MatrixEntry(r.Source_Node, r.Target_Node) < 0
          /\ r.Predicted_Link_Strength = 35000

\* C4 witness of the rounding: a record whose recorded strength differs from
\* the unrounded one (1.0004 recorded as 1.0).
C4_RoundingWitness ==
    /\ GapsDone
    /\ \E r \in GapRows :
          r.Predicted_Link_Strength # StatedStrength(r.Source_Node, r.Target_Node)

\* C5 as stated: the co-occurrence score stored in a record is never negative.
C5_Original_StoredScoreNonNegative ==
    GapsDone => \A r \in GapRows : r.Cooccurrence_Score >= 0

\* C5 amended: the co-occurrence score stored in a record is the matrix entry
\* M[source][target] itself (0 when absent from the matrix) rounded to 3
\* decimals, negative when the entry is; only what it adds to the predicted
\* strength is clipped at 0, so the recorded strength is never below
\* 2 * topological score + bridge bonus.
C5_StoredScoreIsRawEntry ==
    GapsDone =>
        \A r \in GapRows :
            /\ r.Cooccurrence_Score =
                  Round3(MatrixEntry(r.Source_Node, r.Target_Node))
            /\ r.Predicted_Link_Strength >=
                  (2 * Scale * r.Topological_Score) + r.Bridge_Bonus

\* C5 witness: a record that stores a negative co-occurrence score.
C5_Witness ==
    /\ GapsDone
    /\ \E r \in GapRows :
          /\ r.Cooccurrence_Score = -5000
          /\ MatrixEntry(r.Source_Node, r.Target_Node) = -5000

\* C6: in every record the source and the target are distinct concepts of
\* different categories.
C6_DistinctConceptsAndCategories ==
    GapsDone =>
        \A r \in GapRows :
            /\ r.Source_Node # r.Target_Node
            /\ r.Source_Category # r.Target_Category
            /\ CategoryOf(r.Source_Node) # CategoryOf(r.Target_Node)

\* C6 witness: the scorer ran its loops over two distinct concepts of one
\* category, unlinked, with a common successor (strength 2.0 or more), and did
\* not report them.
C6_Witness ==
    /\ GapsDone
    /\ gap_status # "skipped"
    /\ \E u, v \in G_nodes :
          /\ u # v /\ CategoryOf(u) = CategoryOf(v) /\ Unlinked(u, v)
          /\ StatedStrength(u, v) > Scale
          /\ ~InGapList(u, v)

----------------------------------------------------------------------------
(* synthesize_and_plot_trajectory, lines 254-418 *)

\* Line 269-270: start or end is missing from the link graph or the registry.
start_or_end_missing ==
    \/ start_node_id \notin G_nodes \/ end_node_id \notin G_nodes
    \/ start_node_id \notin DOMAIN node_info \/ end_node_id \notin DOMAIN node_info

\* combinations(cooccurrence_matrix.columns, 2), line 273: the columns are the
\* sorted concept ids.
column_pairs ==
    LET cols == SortedSeq(cooc_index)
    IN  Flatten([i \in 1..Len(cols) |->
                   [j \in 1..(Len(cols) - i) |-> <<cols[i], cols[i + j]>>]])

\* Variant: every pair of columns gets an edge.
AdmitsAll(score) == TRUE

\* Variant: a score equal to the minimum weight admits the edge.
AdmitsAtThreshold(score) == score >= min_cooc_for_edge_in_path

\* Line 276
admits_edge(score) == score > min_cooc_for_edge_in_path

\* The edges added to G_cooc_weighted, in the order they are added, lines 273-276
cooc_edge_list ==
    SelectSeq(column_pairs,
              LAMBDA p : /\ p[1] \in cooc_index /\ p[2] \in cooc_index /\ p[1] # p[2]
                         /\ admits_edge(cooccurrence_matrix[p]))

\* G_cooc_weighted: add_edge also adds the two endpoints as nodes.
cooc_has_node(n) == \E i \in 1..Len(cooc_edge_list) : n \in Range(cooc_edge_list[i])

cooc_has_edge(u, v) ==
    \E i \in 1..Len(cooc_edge_list) :
        cooc_edge_list[i] = <<u, v>> \/ cooc_edge_list[i] = <<v, u>>

cooc_weight(u, v) == cooccurrence_matrix[<<u, v>>]

\* G_cooc_weighted[x]: the neighbours of x in the order their edges were added.
cooc_neighbors(x) ==
    LET mine == SelectSeq(cooc_edge_list, LAMBDA p : x \in Range(p))
    IN  [i \in 1..Len(mine) |-> IF mine[i][1] = x THEN mine[i][2] ELSE mine[i][1]]

\* Variant: only the start node is looked for in the pruned graph.
StartNotInPrunedGraph == ~cooc_has_node(start_node_id)

\* Line 277
start_or_end_not_in_pruned_graph ==
    ~cooc_has_node(start_node_id) \/ ~cooc_has_node(end_node_id)

\* Variant: the depth-first search descends one level deeper than the cutoff.
RECURSIVE SearchTooDeep(_, _, _)
SearchTooDeep(visited, target, cutoff) ==
    LET children == cooc_neighbors(visited[Len(visited)])
    IN  Flatten([i \in 1..Len(children) |->
            IF children[i] \in Range(visited) THEN <<>>
            ELSE IF children[i] = target THEN << visited \o <<children[i]>> >>
            ELSE IF Len(visited) <= cutoff
                 THEN SearchTooDeep(visited \o <<children[i]>>, target, cutoff)
                 ELSE <<>>])

\* Variant: an inner node is not looked for among the visited ones, so that a
\* path may come back to a node it has left.
RECURSIVE SearchRevisiting(_, _, _)
SearchRevisiting(visited, target, cutoff) ==
    LET children == cooc_neighbors(visited[Len(visited)])
    IN  Flatten([i \in 1..Len(children) |->
            IF children[i] = target THEN << visited \o <<children[i]>> >>
            ELSE IF Len(visited) < cutoff
                 THEN SearchRevisiting(visited \o <<children[i]>>, target, cutoff)
                 ELSE <<>>])

\* The depth-first search of nx.all_simple_paths from the nodes visited so
\* far: each unvisited child is tried in adjacency order; the target ends a
\* path; another child is descended into while fewer than cutoff nodes are
\* visited.
RECURSIVE simple_paths_from(_, _, _)
simple_paths_from(visited, target, cutoff) ==
    LET children == cooc_neighbors(visited[Len(visited)])
    IN  Flatten([i \in 1..Len(children) |->
            IF children[i] \in Range(visited) THEN <<>>
            ELSE IF children[i] = target THEN << visited \o <<children[i]>> >>
            ELSE IF Len(visited) < cutoff
                 THEN simple_paths_from(visited \o <<children[i]>>, target, cutoff)
                 ELSE <<>>])

\* nx.all_simple_paths(G_cooc_weighted, source, target, cutoff), line 283:
\* nothing (or the one-node path, by the version) when source is the target,
\* nothing when cutoff < 1.
all_simple_paths(source, target, cutoff) ==
    IF source = target \/ cutoff < 1 THEN <<>>
    ELSE simple_paths_from(<<source>>, target, cutoff)

\* Lines 282-284
found_paths ==
    SelectSeq(all_simple_paths(start_node_id, end_node_id, max_path_len_for_search),
              LAMBDA path : Len(path) >= 2)

\* The steps 0 .. len(path) - 2 of the scoring loop, line 293
steps(path) == 1..(Len(path) - 1)

\* Lines 295-296
valid_path(path) == \A i \in steps(path) : cooc_has_edge(path[i], path[i + 1])

path_cooc_scores(path) == [i \in steps(path) |-> cooc_weight(path[i], path[i + 1])]

RECURSIVE SumSeq(_)
SumSeq(xs) == IF xs = <<>> THEN 0 ELSE Head(xs) + SumSeq(Tail(xs))

\* Variant: the sum of the edge weights is divided by the number of nodes.
AvgOverNodes(path) ==
    IF Len(path_cooc_scores(path)) = 0 THEN 0
    ELSE SumSeq(path_cooc_scores(path)) \div Len(path)

\* np.mean(path_cooc_scores) if path_cooc_scores else 0, line 304
avg_cooc(path) ==
    IF Len(path_cooc_scores(path)) = 0 THEN 0
    ELSE SumSeq(path_cooc_scores(path)) \div Len(path_cooc_scores(path))

\* Line 297
explicit_links_count(path) ==
    Cardinality({i \in steps(path) : has_edge(path[i], path[i + 1])})

\* node_info.get(n, {}).get('category'), line 298; "" stands for None
category_or_none(n) == IF n \in DOMAIN node_info THEN node_info[n].category ELSE ""

\* CATEGORY_ORDER.index(cat)
category_index(cat) == CHOOSE k \in 1..Len(CATEGORY_ORDER) : CATEGORY_ORDER[k] = cat

\* Variant: only a move to a strictly later category counts.
StrictlyLater(cat_u, cat_v) == category_index(cat_v) > category_index(cat_u)

\* Line 300
same_or_later(cat_u, cat_v) == category_index(cat_v) >= category_index(cat_u)

\* Lines 298-300
hierarchical_score(path) ==
    Cardinality({i \in steps(path) :
        LET cat_u == category_or_none(path[i])
            cat_v == category_or_none(path[i + 1])
        IN  /\ cat_u # "" /\ cat_v # ""
            /\ cat_u \in Range(CATEGORY_ORDER) /\ cat_v \in Range(CATEGORY_ORDER)
            /\ same_or_later(cat_u, cat_v)})

\* Lines 301-302
path_categories_set(path) ==
    ({category_or_none(path[i]) : i \in steps(path)} \ {""})
        \cup (IF path[Len(path)] \in DOMAIN node_info
              THEN {node_info[path[Len(path)]].category} ELSE {})

\* Variant: two distinct categories already earn the bonus.
SpanBonusFromTwo(path) ==
    IF Cardinality(path_categories_set(path)) >= 2
    THEN Cardinality(path_categories_set(path)) ELSE 0

\* Line 305
category_span_bonus(path) ==
    IF Cardinality(path_categories_set(path)) >= 3
    THEN Cardinality(path_categories_set(path)) ELSE 0

\* Line 306
final_score(path) ==
    (avg_cooc(path) * 10) + (explicit_links_count(path) * 5 * Scale)
        + (hierarchical_score(path) * 2 * Scale) + (category_span_bonus(path) * 1 * Scale)

\* The record of line 307 (path_str, the joined ids, is not kept apart)
path_record(path) ==
    [path_nodes              |-> path,
     score                   |-> final_score(path),
     path_length             |-> Len(path),
     avg_cooc_score          |-> Round3(avg_cooc(path)),
     num_explicit_links      |-> explicit_links_count(path),
     hierarchical_flow_score |-> hierarchical_score(path),
     category_span_score     |-> category_span_bonus(path)]

\* The record of lines 288 and 310
fallback_record ==
    [path_nodes              |-> <<start_node_id, end_node_id>>,
     score                   |-> 0,
     path_length             |-> 2,
     avg_cooc_score          |-> 0,
     num_explicit_links      |-> 0,
     hierarchical_flow_score |-> 0,
     category_span_score     |-> 0]

\* Lines 290-307
scored_paths ==
    LET valid == SelectSeq(found_paths, valid_path)
    IN  [i \in 1..Len(valid) |-> path_record(valid[i])]

score_column(rows) == [i \in 1..Len(rows) |-> rows[i].score]

\* Variant: the table keeps the order in which the paths were found.
UnrankedPaths == scored_paths

\* Lines 312-314
ranked_paths == sort_values_desc(scored_paths, score_column(scored_paths))

\* Lines 322-333: the best path's nodes that are in the registry, and its edges
\* between two such nodes.
vis_path_nodes(best) == {best[i] : i \in 1..Len(best)} \cap DOMAIN node_info

main_path_edges(best) ==
    LET kept == SelectSeq([i \in steps(best) |-> <<best[i], best[i + 1]>>],
                          LAMBDA e : e[1] \in vis_path_nodes(best)
                                     /\ e[2] \in vis_path_nodes(best))
    IN  kept

\* Variant: every successor of start is a bridge node.
SuccessorsOfStart == successors(start_node_id)

\* Lines 338-340
all_common_bridge_nodes == successors(start_node_id) \cap successors(end_node_id)

\* Lines 342-354: the support edges added for the bridge nodes B.
support_edges_for(best, B) ==
    LET vis_nodes == vis_path_nodes(best) \cup (B \cap DOMAIN node_info)
        main == Range(main_path_edges(best))
    IN  {<<start_node_id, b>> : b \in {b \in B : start_node_id \in vis_nodes
                                              /\ b \in vis_nodes
                                              /\ <<start_node_id, b>> \notin main}}
        \cup
        {<<b, end_node_id>> : b \in {b \in B : b \in vis_nodes
                                            /\ end_node_id \in vis_nodes
                                            /\ <<b, end_node_id>> \notin main}}

\* Lines 315-354 for the table df and the best path: the csv is written, then
\* the best path is drawn with at most 5 of the common successors of start and
\* end (list(set)[:5]: which 5 is up to the set's order).
SaveAndDraw(df, best) ==
    /\ df_paths_to_save' = df
    /\ csv_rows' = head(df, top_n_paths_to_save)
    /\ best_path_nodes_for_vis' = best
    /\ main_path_edges_list' = main_path_edges(best)
    /\ \E B \in SUBSET all_common_bridge_nodes :
          /\ Cardinality(B) = Min(BridgeLimit, Cardinality(all_common_bridge_nodes))
          /\ common_bridge_nodes' = B
          /\ support_edges' = support_edges_for(best, B)

NothingDrawn ==
    /\ df_paths_to_save' = <<>>
    /\ csv_rows' = <<>>
    /\ best_path_nodes_for_vis' = <<>>
    /\ main_path_edges_list' = <<>>
    /\ common_bridge_nodes' = {}
    /\ support_edges' = {}

synthesize_and_plot_trajectory ==
    /\ pc \in {"trajectory", "gaps_done"}
    /\ \/ /\ start_or_end_missing                       \* lines 269-271
          /\ traj_status' = "missing_node"
          /\ G_cooc_weighted' = {}
          /\ all_found_paths' = <<>>
          /\ scored_paths_list' = <<>>
          /\ NothingDrawn
       \/ /\ ~start_or_end_missing
          /\ start_or_end_not_in_pruned_graph           \* lines 277-281
          /\ traj_status' = "not_in_pruned_graph"
          /\ G_cooc_weighted' = Range(cooc_edge_list)
          /\ all_found_paths' = <<>>
          /\ scored_paths_list' = <<>>
          /\ NothingDrawn
       \/ /\ ~start_or_end_missing
          /\ ~start_or_end_not_in_pruned_graph
          /\ G_cooc_weighted' = Range(cooc_edge_list)
          /\ all_found_paths' = found_paths
          /\ \/ /\ found_paths = <<>>                   \* lines 286-288
                /\ traj_status' = "no_paths"
                /\ scored_paths_list' = <<>>
                /\ SaveAndDraw(<<fallback_record>>, fallback_record.path_nodes)
             \/ /\ found_paths # <<>>
                /\ scored_paths = <<>>                  \* lines 308-310
                /\ traj_status' = "no_valid_paths"
                /\ scored_paths_list' = <<>>
                /\ SaveAndDraw(<<fallback_record>>, fallback_record.path_nodes)
             \/ /\ found_paths # <<>>
                /\ scored_paths # <<>>                  \* lines 311-314
                /\ traj_status' = "ranked"
                /\ scored_paths_list' = scored_paths
                /\ SaveAndDraw(ranked_paths, ranked_paths[1].path_nodes)
    /\ pc' = "trajectory_done"
    /\ UNCHANGED <<orchVars, corpusVars, attrVars, stageVars, inputVars, gapVars>>

\* The registry, the link graph and the matrix over all the concepts, and the
\* arguments of the call.
InitTraj ==
    /\ pc = "trajectory"
    /\ \E ends \in TrajEndpoints :
       \E cats \in [Concepts -> TrajCategories] :
       \E E \in SUBSET TrajLinks :
       \E vals \in [Pairs(Concepts) -> TrajCoocValues] :
          /\ start_node_id = ends[1]
          /\ end_node_id = ends[2]
          /\ node_info = [n \in Concepts |-> [category |-> cats[n]]]
          /\ G_nodes = Concepts
          /\ G_edges = E
          /\ cooc_index = Concepts
          /\ cooccurrence_matrix = SymmetricMatrix(Concepts, vals)
    /\ max_path_len_for_search \in MaxPathLenValues
    /\ min_cooc_for_edge_in_path = DefaultMinCooc
    /\ top_n_paths_to_save \in TopNValues
    /\ CorpusIdle
    /\ StagesIdle
    /\ GapIdle
    /\ TrajIdle
    /\ OrchIdle

NextTraj == synthesize_and_plot_trajectory

SpecTraj == InitTraj /\ [][NextTraj]_vars

\* The same call with the minimum weight passed by the caller, over matrices
\* that hold negative correlations.
InitTrajParams ==
    /\ pc = "trajectory"
    /\ \E ends \in TrajEndpoints :
       \E cats \in [Concepts -> TrajCategories] :
       \E E \in SUBSET TrajLinks :
       \E vals \in [Pairs(Concepts) -> SignedCoocValues] :
          /\ start_node_id = ends[1]
          /\ end_node_id = ends[2]
          /\ node_info = [n \in Concepts |-> [category |-> cats[n]]]
          /\ G_nodes = Concepts
          /\ G_edges = E
          /\ cooc_index = Concepts
          /\ cooccurrence_matrix = SymmetricMatrix(Concepts, vals)
    /\ max_path_len_for_search \in MaxPathLenValues
    /\ min_cooc_for_edge_in_path \in MinCoocValues
    /\ top_n_paths_to_save \in TopNValues
    /\ CorpusIdle
    /\ StagesIdle
    /\ GapIdle
    /\ TrajIdle
    /\ OrchIdle

SpecTrajParams == InitTrajParams /\ [][NextTraj]_vars

\* The same call from concept 1 to concept 2 over a link graph in which up to
\* six further concepts are successors of start, and some of those of end too.
InitBridge ==
    /\ pc = "trajectory"
    /\ start_node_id = 1
    /\ end_node_id = 2
    /\ node_info = [n \in {1, 2} \cup BridgeCandidates |->
                      [category |-> IF n = 1 THEN "Theory"
                                    ELSE IF n = 2 THEN "Application" ELSE "Method"]]
    /\ G_nodes = {1, 2} \cup BridgeCandidates
    /\ \E kind \in [BridgeCandidates -> BridgeLinkKinds] :
          G_edges = {<<1, b>> : b \in {b \in BridgeCandidates : kind[b] # "none"}}
                    \cup {<<2, b>> : b \in {b \in BridgeCandidates : kind[b] = "both"}}
    /\ cooc_index = BridgeMatrixConcepts
    /\ \E vals \in [Pairs(BridgeMatrixConcepts) -> BridgeCoocValues] :
          cooccurrence_matrix = SymmetricMatrix(BridgeMatrixConcepts, vals)
    /\ max_path_len_for_search = DefaultMaxPathLen
    /\ min_cooc_for_edge_in_path = DefaultMinCooc
    /\ top_n_paths_to_save = DefaultTopN
    /\ CorpusIdle
    /\ StagesIdle
    /\ GapIdle
    /\ TrajIdle
    /\ OrchIdle

SpecBridge == InitBridge /\ [][NextTraj]_vars

----------------------------------------------------------------------------
(* Properties of the trajectory synthesizer *)

TrajDone == pc = "trajectory_done"

\* The pruned co-occurrence graph as stated: an undirected edge joins two
\* distinct matrix concepts whose score is above the minimum weight, and
\* its nodes are the concepts that have such an edge.
PrunedEdge(u, v) ==
    /\ u \in cooc_index /\ v \in cooc_index /\ u # v
    /\ cooccurrence_matrix[<<u, v>>] > min_cooc_for_edge_in_path

PrunedNodes == {u \in cooc_index : \E v \in cooc_index : PrunedEdge(u, v)}

\* The sequences of n concepts with first start, last end, no concept twice,
\* and consecutive concepts joined in the pruned graph.
SimplePathsOfLen(n) ==
    {p \in [1..n -> PrunedNodes] :
        /\ p[1] = start_node_id /\ p[n] = end_node_id
        /\ \A i, j \in 1..n : i # j => p[i] # p[j]
        /\ \A i \in 1..(n - 1) : PrunedEdge(p[i], p[i + 1])}

\* The simple paths from start to end of at most max_path_len_for_search edges.
StatedSimplePaths ==
    UNION {SimplePathsOfLen(n) :
             n \in 2..Min(max_path_len_for_search + 1, Cardinality(PrunedNodes))}

ZeroRecord ==
    [path_nodes              |-> <<start_node_id, end_node_id>>,
     score                   |-> 0,
     path_length             |-> 2,
     avg_cooc_score          |-> 0,
     num_explicit_links      |-> 0,
     hierarchical_flow_score |-> 0,
     category_span_score     |-> 0]

OutputRows == Range(df_paths_to_save) \cup Range(csv_rows)

IsJoinedPath(p) ==
    /\ Len(p) >= 2
    /\ \A i \in 1..(Len(p) - 1) : PrunedEdge(p[i], p[i + 1])

StartOrEndOffPrunedGraph ==
    start_node_id \notin PrunedNodes \/ end_node_id \notin PrunedNodes

C8_FallbackWhenNoPath ==
    (TrajDone /\ ~StartOrEndOffPrunedGraph /\ StatedSimplePaths = {}) =>
        /\ df_paths_to_save = <<ZeroRecord>>
        /\ csv_rows = <<ZeroRecord>>
        /\ best_path_nodes_for_vis = <<start_node_id, end_node_id>>

\* C8 witness: start and end are distinct nodes of the pruned graph joined
\* only by a path of 2 edges, the search allows 1 edge, and the output is the
\* fallback record.
C8_Witness ==
    /\ TrajDone
    /\ start_node_id # end_node_id
    /\ ~StartOrEndOffPrunedGraph
    /\ max_path_len_for_search = 1
    /\ ~PrunedEdge(start_node_id, end_node_id)
    /\ \E w \in PrunedNodes : PrunedEdge(start_node_id, w) /\ PrunedEdge(w, end_node_id)
    /\ csv_rows = <<ZeroRecord>>

\* C9 as stated: every path record of the output has at least 2 ids, each
\* consecutive pair joined by an edge of the pruned graph.
C9_Original_EveryRecordIsJoinedPath ==
    TrajDone => \A r \in OutputRows : IsJoinedPath(r.path_nodes)

\* C9 amended: every scored path record of the output (every record but the
\* fallback record) has at least 2 ids, each consecutive pair joined by an
\* edge of the pruned graph.
C9_EveryScoredRecordIsJoinedPath ==
    (TrajDone /\ traj_status = "ranked") =>
        \A r \in OutputRows \cup Range(scored_paths_list) :
            /\ IsJoinedPath(r.path_nodes)
            /\ r.path_length = Len(r.path_nodes)

\* C9 witness: a ranked output that holds a path of 3 concepts.
C9_Witness ==
    /\ TrajDone
    /\ traj_status = "ranked"
    /\ \E r \in Range(csv_rows) : Len(r.path_nodes) = 3

\* C10: when start and end are nodes of the pruned graph, the scored paths
\* are exactly the simple paths from start to end of at most
\* max_path_len_for_search edges, each scored once.
C10_ScoredPathsAreTheSimplePaths ==
    (TrajDone /\ ~StartOrEndOffPrunedGraph) =>
        /\ {scored_paths_list[i].path_nodes : i \in 1..Len(scored_paths_list)}
              = StatedSimplePaths
        /\ Len(scored_paths_list) = Cardinality(StatedSimplePaths)

\* C10 witness: two simple paths are scored, the direct edge and the path
\* through the third concept.
C10_Witness ==
    /\ TrajDone
    /\ Len(scored_paths_list) = 2
    /\ \E i \in 1..2 : Len(scored_paths_list[i].path_nodes) = 3

\* C10 witness of the bound: a simple path of 2 edges exists and is not scored
\* because the search allows 1 edge.
C10_CutoffWitness ==
    /\ TrajDone
    /\ max_path_len_for_search = 1
    /\ Len(scored_paths_list) = 1
    /\ \E w \in PrunedNodes : PrunedEdge(start_node_id, w) /\ PrunedEdge(w, end_node_id)

----------------------------------------------------------------------------
(* Properties of the pruned graph and of the scores *)

\* The records of the paths that were scored (none when the fallback is used).
ScoredRecords == Range(scored_paths_list)

\* The matrix entries of the consecutive pairs of the path p.
StatedEdgeWeights(p) ==
    [i \in 1..(Len(p) - 1) |-> cooccurrence_matrix[<<p[i], p[i + 1]>>]]

\* m is the arithmetic mean of the numbers of the sequence w.
IsMeanOf(m, w) == Len(w) > 0 /\ m * Len(w) = SumSeq(w)

\* The mean of the weights of the path's own edges.
StatedMean(p) ==
    CHOOSE m \in 0..Scale : IsMeanOf(m, StatedEdgeWeights(p))

\* C11: once the pruned graph is built, it joins u and v exactly when they are
\* distinct matrix concepts whose score is strictly above the minimum weight,
\* and the average co-occurrence recorded for every scored path is the mean
\* (to 3 places) of the weights of its own edges, each above that minimum.
C11_PrunedGraphAndAverage ==
    (TrajDone /\ traj_status # "missing_node") =>
        /\ \A u, v \in G_nodes \cup cooc_index \cup {start_node_id, end_node_id} :
              (<<u, v>> \in G_cooc_weighted \/ <<v, u>> \in G_cooc_weighted)
                  <=> PrunedEdge(u, v)
        /\ G_cooc_weighted \subseteq cooc_index \X cooc_index
        /\ \A r \in ScoredRecords :
              LET w == StatedEdgeWeights(r.path_nodes)
              IN  /\ \A i \in 1..Len(w) : w[i] > min_cooc_for_edge_in_path
                  /\ \E m \in 0..Scale : IsMeanOf(m, w)
                  /\ r.avg_cooc_score = Round3(StatedMean(r.path_nodes))

\* C11 witness: a pair at exactly the minimum weight is left unjoined, and a
\* scored path over two edges of different weights has their rounded mean.
C11_Witness ==
    /\ TrajDone /\ traj_status = "ranked"
    /\ \E u, v \in cooc_index :
          /\ u # v /\ cooccurrence_matrix[<<u, v>>] = min_cooc_for_edge_in_path
          /\ <<u, v>> \notin G_cooc_weighted /\ <<v, u>> \notin G_cooc_weighted
    /\ \E r \in ScoredRecords :
          /\ Len(r.path_nodes) = 3
          /\ StatedEdgeWeights(r.path_nodes) = <<5406, 9000>>
          /\ r.avg_cooc_score = 7200

\* The number of steps of p that are edges of the directed link graph.
StatedExplicitLinks(p) ==
    Cardinality({i \in 1..(Len(p) - 1) : <<p[i], p[i + 1]>> \in G_edges})

\* The distinct categories of the concepts of p, and the bonus for them.
StatedCategories(p) == {CategoryOf(p[i]) : i \in 1..Len(p)}

StatedSpanBonus(p) ==
    IF Cardinality(StatedCategories(p)) >= 3
    THEN Cardinality(StatedCategories(p)) ELSE 0

\* C12: the combined score of every scored path is 10 times the mean of its
\* edge weights, plus 5 per explicit link, plus 2 per hierarchical-flow point,
\* plus the category-span bonus, which is the number of distinct categories of
\* the path's concepts when that is at least 3 and 0 otherwise.
C12_CombinedScore ==
    TrajDone =>
        \A r \in ScoredRecords :
            /\ r.num_explicit_links = StatedExplicitLinks(r.path_nodes)
            /\ r.category_span_score = StatedSpanBonus(r.path_nodes)
            /\ r.score = (10 * StatedMean(r.path_nodes))
                           + (5 * Scale * r.num_explicit_links)
                           + (2 * Scale * r.hierarchical_flow_score)
                           + (1 * Scale * r.category_span_score)

\* C12 witness: one scored path over three categories earns the bonus 3 and
\* has an explicit link, a flow point and a mean that rounding would change;
\* another over two categories earns no bonus.
C12_Witness ==
    /\ TrajDone
    /\ \E r \in ScoredRecords :
          /\ r.category_span_score = 3
          /\ r.num_explicit_links >= 1
          /\ r.hierarchical_flow_score >= 1
          /\ StatedMean(r.path_nodes) # r.avg_cooc_score
    /\ \E r \in ScoredRecords :
          /\ Cardinality(StatedCategories(r.path_nodes)) = 2
          /\ r.category_span_score = 0
          /\ r.score > 0

\* The position of a category in the order Theory, Mechanism, Phenomenon,
\* Method, Material, Application.
StatedPosition(cat) ==
    CASE cat = "Theory"      -> 1
      [] cat = "Mechanism"   -> 2
      [] cat = "Phenomenon"  -> 3
      [] cat = "Method"      -> 4
      [] cat = "Material"    -> 5
      [] cat = "Application" -> 6

\* The steps of p whose second category is at the same or a later position.
StatedFlowSteps(p) ==
    {i \in 1..(Len(p) - 1) :
        StatedPosition(CategoryOf(p[i + 1])) >= StatedPosition(CategoryOf(p[i]))}

\* C13: the hierarchical-flow score of every scored path is the number of its
\* consecutive steps whose second concept's category is at the same or a later
\* position than the first's, so it is between 0 and the number of edges.
C13_HierarchicalFlow ==
    TrajDone =>
        \A r \in ScoredRecords :
            /\ r.hierarchical_flow_score = Cardinality(StatedFlowSteps(r.path_nodes))
            /\ r.hierarchical_flow_score >= 0
            /\ r.hierarchical_flow_score <= Len(r.path_nodes) - 1

\* C13 witness: a scored path of two steps, the first between concepts of one
\* category (counted), the second back to an earlier category (not counted).
C13_Witness ==
    /\ TrajDone
    /\ \E r \in ScoredRecords :
          LET p == r.path_nodes
          IN  /\ Len(p) = 3
              /\ CategoryOf(p[1]) = CategoryOf(p[2])
              /\ StatedPosition(CategoryOf(p[3])) < StatedPosition(CategoryOf(p[2]))
              /\ r.hierarchical_flow_score = 1

\* C14: the table written holds at most top_n_paths_to_save records; when paths
\* were scored its rows are distinct scored records in non-increasing order of
\* score, as many as the limit allows, none scoring less than a scored record
\* that was left out; and the best path is a scored path of maximum score.
C14_TopRankedPaths ==
    TrajDone =>
        /\ Len(csv_rows) <= top_n_paths_to_save
        /\ traj_status = "ranked" =>
              /\ Len(csv_rows) = Min(top_n_paths_to_save, Cardinality(ScoredRecords))
              /\ \A i \in 1..Len(csv_rows) : csv_rows[i] \in ScoredRecords
              /\ \A i, j \in 1..Len(csv_rows) :
                    /\ i < j => csv_rows[i].score >= csv_rows[j].score
                    /\ i # j => csv_rows[i] # csv_rows[j]
              /\ \A r \in ScoredRecords \ Range(csv_rows) :
                    \A i \in 1..Len(csv_rows) : csv_rows[i].score >= r.score
              /\ \E r \in ScoredRecords :
                    /\ r.path_nodes = best_path_nodes_for_vis
                    /\ \A q \in ScoredRecords : r.score >= q.score

\* C14 witness: two paths are scored, the one found second scores more, and
\* with a limit of 1 it is the only row of the table and the best path.
C14_Witness ==
    /\ TrajDone /\ traj_status = "ranked"
    /\ top_n_paths_to_save = 1
    /\ Len(scored_paths_list) = 2
    /\ scored_paths_list[2].score > scored_paths_list[1].score
    /\ csv_rows = <<scored_paths_list[2]>>
    /\ best_path_nodes_for_vis = scored_paths_list[2].path_nodes

\* C15 as stated: whatever the inputs and the parameters, minimum weight
\* included, the combined score of every path record produced is at least 0.
C15_Original_ScoreNeverNegative ==
    TrajDone => \A r \in OutputRows \cup ScoredRecords : r.score >= 0

\* C15: when the minimum co-occurrence weight is not negative, the combined
\* score of every path record produced is at least 0, whatever the inputs, the
\* hop limit and the table limit.
C15_ScoreNonNegativeForNonNegativeMinimum ==
    (TrajDone /\ min_cooc_for_edge_in_path >= 0) =>
        \A r \in OutputRows \cup ScoredRecords : r.score >= 0

\* C15 witness: with a minimum weight of 0 over a matrix that holds a negative
\* entry between start and end, a path through the third concept is scored.
C15_Witness ==
    /\ TrajDone /\ traj_status = "ranked"
    /\ min_cooc_for_edge_in_path = 0
    /\ start_node_id # end_node_id
    /\ cooccurrence_matrix[<<start_node_id, end_node_id>>] < 0
    /\ \E r \in OutputRows : Len(r.path_nodes) = 3 /\ r.score > 0

\* The common successors of start and end in the directed link graph.
StatedCommonSuccessors ==
    {b \in G_nodes : <<start_node_id, b>> \in G_edges /\ <<end_node_id, b>> \in G_edges}

\* The consecutive pairs of the path p.
ConsecutivePairs(p) == [i \in 1..(Len(p) - 1) |-> <<p[i], p[i + 1]>>]

\* C16: the bridge concepts attached to the best path are at most 5, each a
\* successor of both start and end in the link graph; the table holds only
\* path records, the best path is still the first row's path, the main-path
\* edges are its consecutive pairs, and no support edge is a main-path edge.
C16_BridgeConcepts ==
    TrajDone =>
        /\ Cardinality(common_bridge_nodes) <= 5
        /\ common_bridge_nodes \subseteq StatedCommonSuccessors
        /\ traj_status = "ranked" => Range(df_paths_to_save) = ScoredRecords
        /\ df_paths_to_save # <<>> =>
              /\ best_path_nodes_for_vis = df_paths_to_save[1].path_nodes
              /\ main_path_edges_list = ConsecutivePairs(best_path_nodes_for_vis)
              /\ support_edges \cap Range(main_path_edges_list) = {}

\* C16 witness: start and end have six common successors, five of them are
\* attached, and one of the attached concepts is itself on the best path.
C16_Witness ==
    /\ TrajDone /\ traj_status = "ranked"
    /\ Cardinality(StatedCommonSuccessors) = 6
    /\ Cardinality(common_bridge_nodes) = 5
    /\ \E b \in common_bridge_nodes : b \in Range(best_path_nodes_for_vis)
    /\ support_edges # {}

----------------------------------------------------------------------------
(* get_node_metadata, lines 28-37, and build_explicit_link_graph, lines 39-53 *)

\* The keys of NODE_CATEGORIES and the category of each, lines 18-22
NodeCategoryFiles ==
    {"applications.md", "materials.md", "mechanisms.md", "methods.md",
     "phenomena.md", "theoretical.md"}

category_of_file(md_file) ==
    CASE md_file = "applications.md" -> "Application"
      [] md_file = "materials.md"    -> "Material"
      [] md_file = "mechanisms.md"   -> "Mechanism"
      [] md_file = "methods.md"      -> "Method"
      [] md_file = "phenomena.md"    -> "Phenomenon"
      [] md_file = "theoretical.md"  -> "Theory"

\* The tokens of a document.  "### " followed by a concept id matches both
\* r"###\s+([a-zA-Z0-9\-\_]+)" and r"###\s+"; "### " followed by any other
\* character matches only r"###\s+"; a cross-reference matches link_regex.
HeaderToken(c) == <<"header", c>>
MarkerToken == <<"marker", 0>>
LinkToken(c) == <<"link", c>>

Tokens ==
    {HeaderToken(c) : c \in CorpusConcepts} \cup {MarkerToken}
        \cup {LinkToken(c) : c \in CorpusConcepts \cup {UnknownId}}

\* The sequences of at most n elements of S.
SeqsUpTo(S, n) == UNION {[1..k -> S] : k \in 0..n}

\* re.findall(r"###\s+([a-zA-Z0-9\-\_]+)", content), lines 34 and 46
findall_headers(content) ==
    LET hs == SelectSeq(content, LAMBDA t : t[1] = "header")
    IN  [i \in 1..Len(hs) |-> hs[i][2]]

\* Variant: a header met again replaces the entry of its concept.
RECURSIVE OverwriteHeaders(_, _, _)
OverwriteHeaders(info, headers, category) ==
    IF headers = <<>> THEN info
    ELSE OverwriteHeaders(
             [n \in DOMAIN info \cup {Head(headers)} |->
                 IF n = Head(headers) THEN [category |-> category] ELSE info[n]],
             Tail(headers), category)

\* Lines 35-36: each header not yet in node_info gets the file's category.
RECURSIVE register_headers(_, _, _)
register_headers(info, headers, category) ==
    IF headers = <<>> THEN info
    ELSE register_headers(
             IF Head(headers) \in DOMAIN info THEN info
             ELSE [n \in DOMAIN info \cup {Head(headers)} |->
                     IF n = Head(headers) THEN [category |-> category] ELSE info[n]],
             Tail(headers), category)

\* One turn of the loop of lines 30-36, for the next file of the list.  The
\* first turn starts from the empty dict of line 29.
get_node_metadata_file ==
    /\ pc = "metadata"
    /\ file_pos < Len(files)
    /\ LET md_file == files[file_pos + 1]
           info    == IF file_pos = 0 THEN <<>> ELSE node_info
       IN  node_info' =
               IF md_file.name \in NodeCategoryFiles
               THEN register_headers(info, findall_headers(md_file.content),
                                     category_of_file(md_file.name))
               ELSE info
    /\ file_pos' = file_pos + 1
    /\ pc' = IF file_pos + 1 = Len(files) THEN "link_graph" ELSE "metadata"
    /\ UNCHANGED <<orchVars, files, first_run, G_nodes, G_edges, cooc_index,
                   cooccurrence_matrix, start_node_id, end_node_id, max_path_len_for_search,
                   min_cooc_for_edge_in_path, top_n_paths_to_save,
                   attrVars, stageVars, gapVars, trajVars>>

\* The positions of the matches of r"###\s+" in the content.
marker_positions(content) ==
    SelectSeq([k \in 1..Len(content) |-> k],
              LAMBDA k : content[k][1] \in {"header", "marker"})

\* re.split(r"###\s+", content), line 46: what precedes the first match, then
\* what follows each match up to the next.  Element j + 1 is sections[j].
split_sections(content) ==
    LET at == marker_positions(content)
        n  == Len(at)
    IN  [j \in 1..(n + 1) |->
            SubSeq(content,
                   IF j = 1 THEN 1 ELSE at[j - 1] + 1,
                   IF j = n + 1 THEN Len(content) ELSE at[j] - 1)]

\* link_regex.findall(section), line 49: the targets of the cross-references.
findall_links(section) ==
    LET ls == SelectSeq(section, LAMBDA t : t[1] = "link")
    IN  [i \in 1..Len(ls) |-> ls[i][2]]

\* The first element of headers, line 46: [""].
NoHeader == 0

\* Variant: the target of a cross-reference is not looked up in the graph.
AllLinks(found_links, G) == found_links

\* Line 52: "if target_node in G"
links_into_graph(found_links, G) == SelectSeq(found_links, LAMBDA t : t \in G)

\* Lines 46-52 for one document: the edges added, in order.  Section i is paired
\* with headers[i], the i-th header that a concept id follows.
file_edge_list(content, G) ==
    LET sections == split_sections(content)
        headers  == <<NoHeader>> \o findall_headers(content)
    IN  Flatten([i \in 1..(Len(sections) - 1) |->
            IF i < Len(headers) /\ headers[i + 1] \in G
            THEN LET targets == links_into_graph(findall_links(sections[i + 1]), G)
                 IN  [k \in 1..Len(targets) |-> <<headers[i + 1], targets[k]>>]
            ELSE <<>>])

\* Lines 43-52 for all the documents.
link_edge_list ==
    Flatten([f \in 1..Len(files) |->
        IF files[f].name \in NodeCategoryFiles
        THEN file_edge_list(files[f].content, DOMAIN node_info)
        ELSE <<>>])

\* Lines 39-53: a new graph (line 40), with no attribute but those of the
\* registry; the nodes are the registry's keys (line 42); add_edge would add an
\* endpoint that is not yet a node.
build_explicit_link_graph ==
    /\ pc = "link_graph"
    /\ G_edges' = Range(link_edge_list)
    /\ G_nodes' = DOMAIN node_info
                     \cup {e[1] : e \in Range(link_edge_list)}
                     \cup {e[2] : e \in Range(link_edge_list)}
    /\ pagerank_attr' = {}
    /\ community_attr' = {}
    /\ pc' = "link_graph_done"
    /\ UNCHANGED <<orchVars, corpusVars, node_info, cooc_index, cooccurrence_matrix,
                   start_node_id, end_node_id, max_path_len_for_search,
                   min_cooc_for_edge_in_path, top_n_paths_to_save,
                   stageVars, gapVars, trajVars>>

\* Variant: no node gets a PageRank value.
NoPagerank == {}

\* The keys of nx.pagerank(G_directed), line 608: every node of the graph (none
\* for an empty graph).  The values are not modelled.
pagerank_keys == G_nodes

\* Lines 608-609 of main: the PageRank values are set as node attributes.
attach_pagerank ==
    /\ pc = "link_graph_done"
    /\ pagerank_attr' = pagerank_attr \cup (pagerank_keys \cap G_nodes)
    /\ pc' = "pagerank_done"
    /\ UNCHANGED <<orchVars, corpusVars, inputVars, community_attr, stageVars, gapVars, trajVars>>

\* The files of the list that are keys of NODE_CATEGORIES: the keys of
\* doc_links, line 58, that is the columns of the abundance matrix.
doc_links_keys ==
    {files[f].name : f \in {f \in 1..Len(files) : files[f].name \in NodeCategoryFiles}}

\* doc_links[doc], line 58: the targets of all the cross-references of the file.
doc_links(doc) ==
    findall_links((CHOOSE f \in Range(files) : f.name = doc).content)

\* Variant: a concept referenced in a document counts once.
LinkPresent(concept, doc) ==
    IF \E k \in 1..Len(doc_links(doc)) : doc_links(doc)[k] = concept THEN 1 ELSE 0

\* pd.Series(links).value_counts()[concept], line 61 (0 when it is not a key)
link_count(concept, doc) ==
    Cardinality({k \in 1..Len(doc_links(doc)) : doc_links(doc)[k] = concept})

\* Variant: the counts are added to the cells of the table built before.
AbundanceAccumulated(concept, doc) ==
    IF concept \notin DOMAIN node_info THEN 0
    ELSE IF <<concept, doc>> \in DOMAIN abundance_matrix
         THEN abundance_matrix[<<concept, doc>>] + link_count(concept, doc)
         ELSE link_count(concept, doc)

\* Lines 59-63: in a new table of zeros, the cell of a concept of the index (the
\* registry's keys) is the count of its references in the document; other
\* targets are passed over.
abundance(concept, doc) ==
    IF concept \in DOMAIN node_info THEN link_count(concept, doc) ELSE 0

\* Line 64: the rows whose sum is above 0.
abundance_rows_kept ==
    {c \in DOMAIN node_info : \E doc \in doc_links_keys : abundance(c, doc) > 0}

\* sorted(doc_links.keys()), line 59: the columns in alphabetical order.
sorted_doc_links_keys ==
    SelectSeq(<<"applications.md", "materials.md", "mechanisms.md", "methods.md",
                "phenomena.md", "theoretical.md">>,
              LAMBDA doc : doc \in doc_links_keys)

\* The row of a concept over the columns.
abundance_row(concept) ==
    [i \in 1..Len(sorted_doc_links_keys) |-> abundance(concept, sorted_doc_links_keys[i])]

\* The rank order of a row of at most two observations: 1 rising, -1 falling,
\* 0 when it is constant or has fewer than two observations.
rank_order(row) ==
    IF Len(row) < 2 THEN 0
    ELSE IF row[1] < row[2] THEN 1
    ELSE IF row[1] > row[2] THEN -1
    ELSE 0

\* DataFrame.corr(method='spearman').fillna(0), line 65, for two rows of at
\* most two observations: 1.0 when both rows rise or both fall, -1.0 when one
\* rises and the other falls, and NaN, filled with 0, when a row is constant
\* or there are fewer than two documents.
spearman(row_u, row_v) == rank_order(row_u) * rank_order(row_v) * Scale

\* Lines 55-67
build_cooccurrence_data ==
    /\ pc = "pagerank_done"
    /\ abundance_matrix' =
           [p \in abundance_rows_kept \X doc_links_keys |-> abundance(p[1], p[2])]
    /\ cooc_index' = abundance_rows_kept
    /\ cooccurrence_matrix' =
           [p \in abundance_rows_kept \X abundance_rows_kept |->
               spearman(abundance_row(p[1]), abundance_row(p[2]))]
    /\ pc' = "cooccurrence_done"
    /\ UNCHANGED <<orchVars, corpusVars, node_info, G_nodes, G_edges, start_node_id,
                   end_node_id, max_path_len_for_search, min_cooc_for_edge_in_path,
                   top_n_paths_to_save, attrVars, innovation_status,
                   innovation_pagerank, node_list_status, node_list_defaulted,
                   centrality_status, gapVars, trajVars>>

\* Lines 127-154: None when the graph or the matrix is empty (line 129);
\* otherwise the scores are built on the 'pagerank' attributes of the nodes
\* (line 130).  The scores themselves are not modelled.
analyze_innovation_strategies ==
    /\ pc = "cooccurrence_done"
    /\ IF G_nodes = {} \/ matrix_empty
       THEN /\ innovation_status' = "none"
            /\ innovation_pagerank' = {}
       ELSE /\ innovation_status' = "scored"
            /\ innovation_pagerank' = pagerank_attr
    /\ pc' = "innovation_done"
    /\ UNCHANGED <<orchVars, corpusVars, inputVars, attrVars, abundance_matrix,
                   node_list_status, node_list_defaulted, centrality_status,
                   gapVars, trajVars>>

\* Lines 72-125: nothing for an empty graph (lines 79-81); otherwise one row per
\* node, with data.get('pagerank', 0.0) (line 90).
create_and_save_node_list ==
    /\ pc = "innovation_done"
    /\ IF G_nodes = {}
       THEN /\ node_list_status' = "skipped"
            /\ node_list_defaulted' = {}
       ELSE /\ node_list_status' = "saved"
            /\ node_list_defaulted' = G_nodes \ pagerank_attr
    /\ pc' = "node_list_done"
    /\ UNCHANGED <<orchVars, corpusVars, inputVars, attrVars, abundance_matrix,
                   innovation_status, innovation_pagerank, centrality_status,
                   gapVars, trajVars>>

\* Variant: the stage is run on an empty graph too.
GraphNeverEmpty == FALSE

\* Line 525: "if not G_directed or G_directed.number_of_nodes() == 0"
graph_empty == G_nodes = {}

\* Lines 517-595: the graph is returned as it is when it is empty (lines
\* 525-527); otherwise every node gets its 'pagerank' (line 534) and its
\* 'community' (lines 559-560: the partition covers every node).
analyze_centrality_and_communities ==
    /\ pc = "node_list_done"
    /\ IF graph_empty
       THEN /\ centrality_status' = "skipped"
            /\ UNCHANGED attrVars
       ELSE /\ centrality_status' = "done"
            /\ pagerank_attr' = pagerank_attr \cup G_nodes
            /\ community_attr' = community_attr \cup G_nodes
    /\ pc' = "gaps"
    /\ UNCHANGED <<orchVars, corpusVars, inputVars, abundance_matrix, innovation_status,
                   innovation_pagerank, node_list_status, node_list_defaulted,
                   gapVars, trajVars>>

\* MARKDOWN_FILES in the order of os.listdir (line 16), nothing read yet, and
\* the two concepts that main names as start and end (lines 652-653).
InitCorpus ==
    /\ pc = "metadata"
    /\ \E name1 \in FirstFileNames, name2 \in LaterFileNames :
       \E content1 \in SeqsUpTo(Tokens, MaxTokens) :
       \E content2 \in SeqsUpTo(Tokens, MaxLaterTokens) :
          files = <<[name |-> name1, content |-> content1],
                    [name |-> name2, content |-> content2]>>
    /\ file_pos = 0
    /\ first_run = <<>>
    /\ node_info = <<>>
    /\ G_nodes = {}
    /\ G_edges = {}
    /\ cooc_index = {}
    /\ cooccurrence_matrix = <<>>
    /\ start_node_id = 1
    /\ end_node_id = 2
    /\ max_path_len_for_search = DefaultMaxPathLen
    /\ min_cooc_for_edge_in_path = DefaultMinCooc
    /\ top_n_paths_to_save = DefaultTopN
    /\ StagesIdle
    /\ GapIdle
    /\ TrajIdle
    /\ OrchIdle

\* The three builders are called again on the same MARKDOWN_FILES, after
\* what they returned has been put aside.
run_builders_again ==
    /\ pc = "cooccurrence_done"
    /\ first_run = <<>>
    /\ first_run' = [node_info           |-> node_info,
                     G_nodes             |-> G_nodes,
                     G_edges             |-> G_edges,
                     abundance_matrix    |-> abundance_matrix,
                     cooc_index          |-> cooc_index,
                     cooccurrence_matrix |-> cooccurrence_matrix]
    /\ file_pos' = 0
    /\ pc' = "metadata"
    /\ UNCHANGED <<orchVars, files, inputVars, attrVars, stageVars, gapVars, trajVars>>

NextRerun ==
    \/ get_node_metadata_file
    \/ build_explicit_link_graph
    \/ attach_pagerank
    \/ build_cooccurrence_data
    \/ run_builders_again

SpecRerun == InitCorpus /\ [][NextRerun]_vars

\* main, lines 600-654: the stages in the order of their calls.
NextCorpus ==
    \/ get_node_metadata_file
    \/ build_explicit_link_graph
    \/ attach_pagerank
    \/ build_cooccurrence_data
    \/ analyze_innovation_strategies
    \/ create_and_save_node_list
    \/ analyze_centrality_and_communities
    \/ analyze_probabilistic_knowledge_gaps
    \/ synthesize_and_plot_trajectory

SpecCorpus == InitCorpus /\ [][NextCorpus]_vars

----------------------------------------------------------------------------
(* Properties of the node registry and of the link graph *)

CorpusRun == pc \in {"metadata", "link_graph", "link_graph_done"}

LinkGraphDone == pc = "link_graph_done"

\* Document f is one of the categorised documents and has a header line of c.
DefinesConcept(f, c) ==
    /\ files[f].name \in NodeCategoryFiles
    /\ \E k \in 1..Len(files[f].content) : files[f].content[k] = HeaderToken(c)

\* Document f is the first, in processing order, that defines c.
FirstDefiner(f, c) ==
    DefinesConcept(f, c) /\ \A g \in 1..(f - 1) : ~DefinesConcept(g, c)

\* Every entry of the registry has the category of the first processed
\* document that defines its concept.
FirstDefinitionKept ==
    CorpusRun =>
        \A c \in DOMAIN node_info :
            \E f \in 1..file_pos :
                /\ FirstDefiner(f, c)
                /\ node_info[c].category = category_of_file(files[f].name)

\* A step leaves every entry that the registry already has as it is.
EntriesUnchanged ==
    \A c \in DOMAIN node_info :
        c \in DOMAIN node_info' /\ node_info'[c] = node_info[c]

\* C17: a concept of the registry always has the category of the first
\* document, in processing order, that defines it, and processing a further
\* document never changes or removes an entry the registry already has.
C17_FirstDefinitionWins == [](FirstDefinitionKept) /\ [][EntriesUnchanged]_vars

\* C17 witness: both documents have been processed, both define concept 1,
\* the later one under another category, and the entry has the first's.
C17_Witness ==
    /\ pc = "link_graph" /\ file_pos = 2
    /\ DefinesConcept(1, 1) /\ DefinesConcept(2, 1)
    /\ category_of_file(files[2].name) # category_of_file(files[1].name)
    /\ node_info[1].category = category_of_file(files[1].name)

\* C18: the link graph built has exactly the registry's keys as its nodes, and
\* both endpoints of every edge are registry concepts, so that a reference to
\* an id outside the registry adds neither an edge nor a node.
C18_GraphOverRegistry ==
    LinkGraphDone =>
        /\ G_nodes = DOMAIN node_info
        /\ \A e \in G_edges : e[1] \in DOMAIN node_info /\ e[2] \in DOMAIN node_info

\* C18 witness: in a categorised document the section of a registry concept
\* refers to an id that no document defines and to a concept that is defined;
\* the graph has an edge, and the undefined id is not a node.
C18_Witness ==
    /\ LinkGraphDone
    /\ files[1].name \in NodeCategoryFiles
    /\ Len(files[1].content) >= 2
    /\ \E c \in DOMAIN node_info :
          /\ files[1].content[1] = HeaderToken(c)
          /\ LinkToken(UnknownId) \in {files[1].content[k] : k \in 2..Len(files[1].content)}
    /\ G_edges # {}
    /\ UnknownId \notin G_nodes

\* The token at position k of the content is in a section owned by s: the
\* most recent header line of a concept before position k is that of s.
OwnedBy(content, k, s) ==
    \E j \in 1..(k - 1) :
        /\ content[j] = HeaderToken(s)
        /\ \A i \in (j + 1)..(k - 1) : content[i][1] # "header"

\* The edges as stated: s -> t when a categorised document holds a reference
\* to the registry concept t in a section owned by the registry concept s.
StatedLinkEdges ==
    {e \in (DOMAIN node_info) \X (DOMAIN node_info) :
        \E f \in 1..Len(files) :
            /\ files[f].name \in NodeCategoryFiles
            /\ \E k \in 1..Len(files[f].content) :
                  /\ files[f].content[k] = LinkToken(e[2])
                  /\ OwnedBy(files[f].content, k, e[1])}

\* No document holds a '### ' marker that no concept id follows.
NoBareMarker ==
    \A f \in 1..Len(files) :
        \A k \in 1..Len(files[f].content) : files[f].content[k] # MarkerToken

\* C19 as stated: for every document, '### ' markers without a concept id
\* included, the link graph has the edge s -> t exactly when a reference to
\* the registry concept t occurs in a section owned by the registry concept s.
C19_Original_EdgesFollowOwner == LinkGraphDone => G_edges = StatedLinkEdges

\* The same over the documents in which a concept id follows every marker.
EdgesFollowOwnerWithoutBareMarker ==
    (LinkGraphDone /\ NoBareMarker) => G_edges = StatedLinkEdges

\* The first document is concept 1's header line, a '### ' marker that no
\* concept id follows, then a reference to concept 2, which the later
\* document defines: the reference is in concept 1's section, and the graph
\* built has no edge for it.
C19_ReferenceAfterBareMarkerLost ==
    /\ LinkGraphDone
    /\ files[1].name \in NodeCategoryFiles
    /\ files[1].content = <<HeaderToken(1), MarkerToken, LinkToken(2)>>
    /\ 2 \in DOMAIN node_info
    /\ <<1, 2>> \in StatedLinkEdges
    /\ G_edges = {}

\* C20 as stated: the link graph built has no edge from a concept to itself,
\* even when a concept's own section refers to that concept.
C20_Original_NoSelfLoop ==
    LinkGraphDone => \A c \in G_nodes : <<c, c>> \notin G_edges

\* The first document is concept 1's header line followed by a reference to
\* concept 1, and the graph built has the edge from concept 1 to itself.
C20_SelfReferenceMakesLoop ==
    /\ LinkGraphDone
    /\ files[1].name \in NodeCategoryFiles
    /\ files[1].content = <<HeaderToken(1), LinkToken(1)>>
    /\ <<1, 1>> \in G_edges

----------------------------------------------------------------------------
(* Properties of the abundance table and of the stages of main *)

\* build_cooccurrence_data has returned in a run of main.
CoocBuilt ==
    pc \in {"cooccurrence_done", "innovation_done", "node_list_done", "gaps",
            "gaps_done", "trajectory_done"}

\* The names of the categorised documents of the corpus.
CategorisedDocs == {f.name : f \in {f \in Range(files) : f.name \in NodeCategoryFiles}}

\* The number of reference tokens of the document d whose target is c.
StatedReferences(c, d) ==
    LET content == (CHOOSE f \in Range(files) : f.name = d).content
    IN  Cardinality({k \in 1..Len(content) : content[k] = LinkToken(c)})

\* C21: in the abundance table the cell of concept c and document d is the
\* number of reference tokens of d whose target is c, and the concepts kept,
\* which index the correlation matrix, are exactly the registry concepts that
\* some document refers to at least once.
C21_AbundanceTable ==
    CoocBuilt =>
        /\ DOMAIN abundance_matrix = cooc_index \X CategorisedDocs
        /\ \A c \in cooc_index : \A d \in CategorisedDocs :
              abundance_matrix[<<c, d>>] = StatedReferences(c, d)
        /\ cooc_index =
              {c \in DOMAIN node_info :
                  \E d \in CategorisedDocs : StatedReferences(c, d) >= 1}
        /\ DOMAIN cooccurrence_matrix = cooc_index \X cooc_index

\* C21 witness: a concept is referenced twice in one document and its cell
\* is 2, while another registry concept, referenced nowhere, is not kept.
C21_Witness ==
    /\ CoocBuilt
    /\ \E c \in cooc_index : \E d \in CategorisedDocs : abundance_matrix[<<c, d>>] = 2
    /\ \E c \in DOMAIN node_info : c \notin cooc_index

\* The link graph is empty, or the co-occurrence matrix is.
DegenerateInputs == G_nodes = {} \/ cooc_index = {}

\* C22: on an empty link graph the centrality and community stage returns
\* with no pagerank and no community attribute on the graph; on an empty graph
\* or an empty matrix the gap scorer returns no candidate, and the trajectory
\* synthesizer can always take its step and returns early with no path record.
C22_DegenerateInputs ==
    /\ (centrality_status # "idle" /\ G_nodes = {}) =>
          /\ centrality_status = "skipped"
          /\ pagerank_attr = {} /\ community_attr = {}
    /\ (gap_status # "idle" /\ DegenerateInputs) =>
          gap_status = "skipped" /\ gap_df = <<>>
    /\ pc = "gaps_done" => ENABLED synthesize_and_plot_trajectory
    /\ (traj_status # "idle" /\ CoocBuilt /\ DegenerateInputs) =>
          /\ pc = "trajectory_done"
          /\ traj_status \in {"missing_node", "not_in_pruned_graph"}
          /\ df_paths_to_save = <<>> /\ csv_rows = <<>> /\ scored_paths_list = <<>>

\* C22 witness: main has run to its end over a graph that holds start and end
\* and an empty matrix; the gap scorer was skipped and the trajectory
\* synthesizer returned for want of start and end in the pruned graph.
C22_Witness ==
    /\ pc = "trajectory_done"
    /\ {start_node_id, end_node_id} \subseteq G_nodes /\ cooc_index = {}
    /\ centrality_status = "done"
    /\ gap_status = "skipped"
    /\ traj_status = "not_in_pruned_graph"

\* main has run to its end over an empty link graph: every stage returned
\* early.
C22_EmptyGraphWitness ==
    /\ pc = "trajectory_done"
    /\ G_nodes = {} /\ files[1].content # <<>>
    /\ innovation_status = "none" /\ node_list_status = "skipped"
    /\ centrality_status = "skipped"
    /\ gap_status = "skipped"
    /\ traj_status = "missing_node"

\* The three builders have returned for the second time.
SecondRunDone == first_run # <<>> /\ pc = "cooccurrence_done"

StageAfter(position) ==
    CASE position = "link_graph"        -> "link_graph_done"
      [] position = "link_graph_done"   -> "pagerank_done"
      [] position = "pagerank_done"     -> "cooccurrence_done"
      [] position = "cooccurrence_done" -> "innovation_done"
      [] position = "innovation_done"   -> "node_list_done"
      [] position = "node_list_done"    -> "gaps"
      [] position = "gaps"              -> "gaps_done"
      [] position = "gaps_done"         -> "trajectory_done"

\* Every step of main is the next stage of the fixed order.
StagesInOrder ==
    IF pc = "metadata" THEN pc' \in {"metadata", "link_graph"}
    ELSE pc # "trajectory_done" /\ pc' = StageAfter(pc)

\* What holds of the attributes and of the stages at each position of main.
StagesReady ==
    /\ pc \in {"cooccurrence_done", "innovation_done"} => pagerank_attr = G_nodes
    /\ innovation_status = "scored" => innovation_pagerank = G_nodes
    /\ node_list_status = "saved" => node_list_defaulted = {}
    /\ node_list_status # "idle" => innovation_status # "idle"
    /\ centrality_status # "idle" => node_list_status # "idle"
    /\ pc = "gaps" =>
          /\ centrality_status \in {"done", "skipped"}
          /\ pagerank_attr = G_nodes /\ community_attr = G_nodes
          /\ gap_status = "idle" /\ traj_status = "idle"
    /\ gap_status # "idle" => centrality_status # "idle"
    /\ pc = "gaps_done" => gap_status # "idle" /\ traj_status = "idle"
    /\ traj_status # "idle" => gap_status # "idle"

\* C26: the stages of main run one after another in the fixed order; every
\* node has its pagerank before the innovation-strategies and node-list stages
\* start, which read it for every node; the centrality and community stage has
\* returned, with pagerank and community on every node, before the gap scorer
\* starts; and the gap scorer has returned before the trajectory synthesizer
\* starts.
C26_StagesSequential == [](StagesReady) /\ [][StagesInOrder]_vars

\* C26 witness: main has run to its end over a corpus for which no stage was
\* skipped: innovation scores were built, communities attached, and a
\* trajectory ranked.
C26_Witness ==
    /\ pc = "trajectory_done"
    /\ innovation_status = "scored" /\ innovation_pagerank = G_nodes
    /\ node_list_status = "saved"
    /\ centrality_status = "done" /\ community_attr = G_nodes /\ G_nodes # {}
    /\ gap_status \in {"none", "saved"}
    /\ traj_status = "ranked"

----------------------------------------------------------------------------
(* The script orchestrator: run_all and main of src/scripts/main.py *)

\* What the user may type at the continue prompt (input(), line 595)
Responses == {"y", "Y", "n", "N", ""}

\* str.lower() on the answers above, line 596
lower(answer) ==
    CASE answer = "Y" -> "y"
      [] answer = "N" -> "n"
      [] OTHER -> answer

\* Variant: the break is never taken.
NeverStops(answer) == FALSE

\* "if response.lower() != 'y': ... break", lines 596-598
stops_run(answer) == lower(answer) # "y"

\* Variant: dependencies are taken as met.
DependenciesAssumed(st, script) == TRUE

\* check_dependencies, lines 183-188
check_dependencies(st, script) ==
    \A k \in DOMAIN script.dependencies : st[script.dependencies[k]] = COMPLETED

\* check_script_prerequisites, lines 190-226: only export-graph (the API
\* health probe) and deploy (which vercel) can fail; probe_ok is how the
\* probe came out.
check_script_prerequisites(script, probe_ok) ==
    IF script.name \in {"export-graph", "deploy"} THEN probe_ok ELSE TRUE

\* Variant: the category and optional filters are not applied.
AllScripts(cats, skip) == scripts

\* scripts_to_run, lines 508-516: "if categories:" is false for an absent flag
select_scripts(cats, skip) ==
    LET by_category == IF cats # {}
                       THEN SelectSeq(scripts, LAMBDA s : s.category \in cats)
                       ELSE scripts
    IN  IF skip THEN SelectSeq(by_category, LAMBDA s : ~s.optional)
        ELSE by_category

\* Variant: a script that passed its checks is run whatever the flag says.
RunsRegardless(dry) == RUNNING

\* lines 563-570: the status a script gets once it has passed its checks
status_when_ready(dry) == IF dry THEN COMPLETED ELSE RUNNING

\* Variant: the loop does not move on.
SameIndex(i) == i

\* "for i, script in enumerate(scripts_to_run, 1)", line 520
next_index(i) == i + 1

\* where run_all stands once the loop is at position i of list todo
loop_or_finish(i, todo) == IF i <= Len(todo) THEN "loop" ELSE "finish"

\* Variant: only fast-setup is looked at.
FastSetupOnly(st) == st["fast-setup"] = COMPLETED

\* setup_completed, lines 676-679
setup_completed(st) ==
    \A n \in {"fast-setup", "verify-de-ready"} : st[n] = COMPLETED

\* "if not args.no_launch and not args.dry_run: ... if setup_completed", 675-680
auto_launch(nolaunch, dry, st) == ~nolaunch /\ ~dry /\ setup_completed(st)

\* The script the loop is at.
current_script == scripts_to_run[script_index]

\* The loop moves to its next script (continue, or the end of the body).
advance ==
    /\ script_index' = next_index(script_index)
    /\ orch_pc' = loop_or_finish(next_index(script_index), scripts_to_run)

\* run_all up to the loop, lines 497-518
run_all_begin ==
    /\ orch_pc = "main"
    /\ scripts_to_run' = select_scripts(categories, skip_optional)
    /\ script_index' = 1
    /\ orch_pc' = loop_or_finish(1, scripts_to_run')
    /\ UNCHANGED <<argVars, status, processed, passed_checks, executed, prompted,
                   response, stopped, summary_printed, report_saved, launched>>
    /\ UNCHANGED <<pc, corpusVars, attrVars, stageVars, inputVars, gapVars, trajVars>>

\* One iteration of the loop up to its continue or up to the call of
\* execute_script, lines 520-571. script_exists is what check_script_exists
\* finds on disk, probe_ok what the prerequisite probe returns.
process_script ==
    /\ orch_pc = "loop"
    /\ \E script_exists \in BOOLEAN, probe_ok \in BOOLEAN :
        LET script == current_script
            name == script.name
        IN  /\ processed' = [processed EXCEPT ![name] = @ + 1]
            /\ IF script.dependencies # <<>> /\ ~check_dependencies(status, script)
               THEN /\ status' = [status EXCEPT ![name] = SKIPPED]
                    /\ advance
                    /\ UNCHANGED <<passed_checks, executed>>
               ELSE IF ~script_exists
               THEN /\ status' = [status EXCEPT ![name] = FAILED]
                    /\ advance
                    /\ UNCHANGED <<passed_checks, executed>>
               ELSE IF script.optional /\ ~check_script_prerequisites(script, probe_ok)
               THEN /\ status' = [status EXCEPT ![name] = SKIPPED]
                    /\ advance
                    /\ UNCHANGED <<passed_checks, executed>>
               ELSE /\ passed_checks' = passed_checks \cup {name}
                    /\ status' = [status EXCEPT ![name] = status_when_ready(dry_run)]
                    /\ IF status_when_ready(dry_run) = COMPLETED
                       THEN /\ advance
                            /\ UNCHANGED executed
                       ELSE /\ executed' = executed \cup {name}
                            /\ orch_pc' = "running"
                            /\ UNCHANGED script_index
    /\ UNCHANGED <<argVars, scripts_to_run, prompted, response, stopped,
                   summary_printed, report_saved, launched>>
    /\ UNCHANGED <<pc, corpusVars, attrVars, stageVars, inputVars, gapVars, trajVars>>

\* execute_script returns, lines 573-602; success is "returncode == 0"
\* (execute_script, lines 236-300).
execute_script_returns ==
    /\ orch_pc = "running"
    /\ \E success \in BOOLEAN :
        LET script == current_script
            name == script.name
        IN  IF success
            THEN /\ status' = [status EXCEPT ![name] = COMPLETED]
                 /\ advance
                 /\ UNCHANGED prompted
            ELSE /\ status' = [status EXCEPT ![name] = FAILED]
                 /\ IF ~script.optional
                    THEN /\ prompted' = prompted \cup {name}
                         /\ orch_pc' = "prompt"
                         /\ UNCHANGED script_index
                    ELSE /\ advance
                         /\ UNCHANGED prompted
    /\ UNCHANGED <<argVars, scripts_to_run, processed, passed_checks, executed,
                   response, stopped, summary_printed, report_saved, launched>>
    /\ UNCHANGED <<pc, corpusVars, attrVars, stageVars, inputVars, gapVars, trajVars>>

\* The user answers "Continue anyway? (y/N)", lines 594-598
answer_prompt ==
    /\ orch_pc = "prompt"
    /\ \E answer \in Responses :
        /\ response' = answer
        /\ IF stops_run(answer)
           THEN /\ stopped' = TRUE
                /\ orch_pc' = "finish"
                /\ UNCHANGED script_index
           ELSE /\ advance
                /\ UNCHANGED stopped
    /\ UNCHANGED <<argVars, status, scripts_to_run, processed, passed_checks,
                   executed, prompted, summary_printed, report_saved, launched>>
    /\ UNCHANGED <<pc, corpusVars, attrVars, stageVars, inputVars, gapVars, trajVars>>

\* print_final_summary and save_execution_report, lines 604-605
run_all_finish ==
    /\ orch_pc = "finish"
    /\ summary_printed' = TRUE
    /\ report_saved' = TRUE
    /\ orch_pc' = "returned"
    /\ UNCHANGED <<argVars, status, scripts_to_run, script_index, processed,
                   passed_checks, executed, prompted, response, stopped, launched>>
    /\ UNCHANGED <<pc, corpusVars, attrVars, stageVars, inputVars, gapVars, trajVars>>

\* main after run_all has returned, lines 674-685
main_auto_launch ==
    /\ orch_pc = "returned"
    /\ launched' = auto_launch(no_launch, dry_run, status)
    /\ orch_pc' = "done"
    /\ UNCHANGED <<argVars, status, scripts_to_run, script_index, processed,
                   passed_checks, executed, prompted, response, stopped,
                   summary_printed, report_saved>>
    /\ UNCHANGED <<pc, corpusVars, attrVars, stageVars, inputVars, gapVars, trajVars>>

\* main has parsed its arguments and built the orchestrator (lines 657-659);
\* the research-path pipeline is a different program and is not running.
InitOrch ==
    /\ orch_pc = "main"
    /\ categories \in SUBSET CategoryChoices
    /\ skip_optional \in BOOLEAN
    /\ dry_run \in BOOLEAN
    /\ no_launch \in BOOLEAN
    /\ status = initial_status
    /\ scripts_to_run = <<>>
    /\ script_index = 0
    /\ processed = [n \in ScriptNames |-> 0]
    /\ passed_checks = {}
    /\ executed = {}
    /\ prompted = {}
    /\ response = NoResponse
    /\ stopped = FALSE
    /\ summary_printed = FALSE
    /\ report_saved = FALSE
    /\ launched = FALSE
    /\ pc = "idle"
    /\ node_info = <<>>
    /\ G_nodes = {}
    /\ G_edges = {}
    /\ cooc_index = {}
    /\ cooccurrence_matrix = <<>>
    /\ start_node_id = UnknownId
    /\ end_node_id = UnknownId
    /\ max_path_len_for_search = DefaultMaxPathLen
    /\ min_cooc_for_edge_in_path = DefaultMinCooc
    /\ top_n_paths_to_save = DefaultTopN
    /\ CorpusIdle
    /\ StagesIdle
    /\ GapIdle
    /\ TrajIdle

NextOrch ==
    \/ run_all_begin
    \/ process_script
    \/ execute_script_returns
    \/ answer_prompt
    \/ run_all_finish
    \/ main_auto_launch

SpecOrch == InitOrch /\ [][NextOrch]_vars

\* Types of the orchestrator's state.
OrchTypeOK ==
    /\ orch_pc \in {"main", "loop", "running", "prompt", "finish", "returned", "done"}
    /\ status \in [ScriptNames -> ScriptStatus]
    /\ script_index \in 0..(Len(scripts) + 1)
    /\ executed \subseteq ScriptNames
    /\ passed_checks \subseteq ScriptNames
    /\ prompted \subseteq ScriptNames
    /\ orch_pc \in {"loop", "running", "prompt"} => script_index \in DOMAIN scripts_to_run

----------------------------------------------------------------------------
(* Claims about the script orchestrator *)

\* C24: with --dry-run, execute_script is never called and no status is ever
\* RUNNING; every script that has passed the dependency, existence and
\* prerequisite checks is COMPLETED, without having been run.
C24_DryRunExecutesNothing ==
    dry_run =>
        /\ executed = {}
        /\ orch_pc # "running"
        /\ \A n \in ScriptNames : status[n] # RUNNING
        /\ \A n \in passed_checks : status[n] = COMPLETED

\* A dry run that is over, in which some scripts passed their checks and
\* another one did not.
C24_Witness ==
    /\ dry_run
    /\ orch_pc = "done"
    /\ "verify-de-ready" \in passed_checks
    /\ status["verify-de-ready"] = COMPLETED
    /\ \E n \in ScriptNames : status[n] = SKIPPED

\* Neither --no-launch nor --dry-run was given, run_all has returned, and
\* fast-setup and verify-de-ready are both COMPLETED.
LaunchConditions ==
    /\ ~no_launch
    /\ ~dry_run
    /\ orch_pc = "done"
    /\ summary_printed /\ report_saved
    /\ status["fast-setup"] = COMPLETED
    /\ status["verify-de-ready"] = COMPLETED

\* C25: launch_discovery_engine is called only when neither --no-launch nor
\* --dry-run is given and, after run_all has returned, fast-setup and
\* verify-de-ready are both COMPLETED; a main that ends in any other case has
\* not called it.
C25_LaunchOnlyAfterSetup ==
    /\ launched => LaunchConditions
    /\ orch_pc = "done" /\ ~LaunchConditions => ~launched

\* The interface has been launched after a run in which a later, optional
\* script failed.
C25_Witness ==
    /\ launched
    /\ \E n \in ScriptNames : status[n] = FAILED

\* main has ended without a launch although both setup scripts are
\* COMPLETED, because the run was a dry run.
C25_NoLaunchWitness ==
    /\ orch_pc = "done"
    /\ ~launched
    /\ ~no_launch
    /\ status["fast-setup"] = COMPLETED
    /\ status["verify-de-ready"] = COMPLETED

\* The script table entry of name n.
ScriptNamed(n) == CHOOSE sc \in Range(scripts) : sc.name = n

\* Every declared dependency of script n is COMPLETED.
DependenciesCompleted(n) ==
    \A d \in Range(ScriptNamed(n).dependencies) : status[d] = COMPLETED

\* A script that is running, has been executed or is COMPLETED has all its
\* dependencies COMPLETED.
CompletedOverCompleted ==
    \A n \in ScriptNames :
        (status[n] \in {RUNNING, COMPLETED} \/ n \in executed) => DependenciesCompleted(n)

\* A step that executes a script or marks it COMPLETED finds its dependencies
\* COMPLETED; a step that processes a script with an unmet dependency marks
\* it SKIPPED and does not execute it.
DependenciesGuardStep ==
    \A n \in ScriptNames :
        /\ (n \in executed' \ executed \/ (status'[n] = COMPLETED /\ status[n] # COMPLETED))
              => DependenciesCompleted(n)
        /\ (processed'[n] # processed[n] /\ ~DependenciesCompleted(n))
              => (status'[n] = SKIPPED /\ n \notin executed')

\* C27: whatever the flags, outcomes and answers, a script is executed or
\* marked COMPLETED only when all its declared dependencies are COMPLETED at
\* that moment, a script with an unmet dependency is marked SKIPPED and never
\* executed, and so a COMPLETED script always has its dependencies COMPLETED.
C27_DependenciesRespected ==
    [](CompletedOverCompleted) /\ [][DependenciesGuardStep]_vars

\* fast-setup ran and completed, verify-de-ready ran and failed, the user
\* went on, and import-concepts was skipped for its unmet dependency.
C27_Witness ==
    /\ status["fast-setup"] = COMPLETED
    /\ status["verify-de-ready"] = FAILED
    /\ "verify-de-ready" \in executed
    /\ status["import-concepts"] = SKIPPED
    /\ "import-concepts" \notin executed
    /\ processed["import-concepts"] = 1

\* run_all under the scheduling of straight-line code: once the loop is left,
\* the two calls that end run_all (lines 604-605) are made.
SpecOrchLive == InitOrch /\ [][NextOrch]_vars /\ WF_vars(run_all_finish)

\* The loop was left at script_index: no script after that position has been
\* processed or executed, and each still has status PENDING.
LaterScriptsUntouched ==
    \A j \in DOMAIN scripts_to_run :
        j > script_index =>
            /\ status[scripts_to_run[j].name] = PENDING
            /\ processed[scripts_to_run[j].name] = 0
            /\ scripts_to_run[j].name \notin executed

\* The run has been stopped at a required script whose execution failed.
RunStopped ==
    /\ orch_pc \in {"finish", "returned", "done"}
    /\ ~current_script.optional
    /\ current_script.name \in executed
    /\ status[current_script.name] = FAILED
    /\ LaterScriptsUntouched

\* C28, as stated: whenever the answer typed at the continue prompt is not
\* the string y, the run has stopped and no later script is touched.
C28_Original_StopsUnlessLowercaseY ==
    response \notin {NoResponse, "y"} => RunStopped

\* Only a required script whose execution failed raises the prompt.
PromptOnlyForRequired ==
    /\ \A n \in prompted : ~ScriptNamed(n).optional /\ status[n] = FAILED /\ n \in executed
    /\ orch_pc = "prompt" => ~current_script.optional

\* The execution of an optional script fails: no prompt, no stop, and the
\* loop goes on with the script after it (or ends, when it was the last).
OptionalFailureGoesOn ==
    \A n \in ScriptNames :
        (status[n] = RUNNING /\ status'[n] = FAILED /\ ScriptNamed(n).optional) =>
            /\ prompted' = prompted
            /\ response' = response
            /\ ~stopped'
            /\ script_index' = script_index + 1
            /\ orch_pc' = IF script_index' <= Len(scripts_to_run) THEN "loop" ELSE "finish"

\* C28: when the execution of a required script fails and the answer to the
\* continue prompt is neither y nor Y, no further script is processed: the
\* later scripts keep PENDING and are never executed, and the final summary
\* and the execution report are produced all the same; the failure of an
\* optional script raises no prompt and does not stop the run.
C28_StopsUnlessYes ==
    /\ [](response \notin {NoResponse, "y", "Y"} => RunStopped)
    /\ [](PromptOnlyForRequired)
    /\ [](orch_pc \in {"returned", "done"} => summary_printed /\ report_saved)
    /\ [][OptionalFailureGoesOn]_vars
    /\ (response \notin {NoResponse, "y", "Y"}) ~> (summary_printed /\ report_saved)

\* verify-de-ready failed, the user answered n, and run_all ended with the
\* summary and the report while the four later scripts are still PENDING.
C28_Witness ==
    /\ response = "n"
    /\ status["fast-setup"] = COMPLETED
    /\ status["verify-de-ready"] = FAILED
    /\ Len(scripts_to_run) = Len(scripts)
    /\ \A j \in 3..Len(scripts) : status[scripts[j].name] = PENDING
    /\ summary_printed /\ report_saved
    /\ orch_pc = "done"

\* An optional script failed with scripts left to run, and the run went on
\* to them without a prompt.
C28_OptionalFailureWitness ==
    /\ status["import-concepts"] = FAILED
    /\ "import-concepts" \in executed
    /\ processed["research-pipeline"] = 1
    /\ prompted = {}

\* No script has been through the loop more than once, and at most one
\* script is RUNNING.
ProcessedOnce ==
    /\ \A n \in ScriptNames : processed[n] <= 1
    /\ \A n \in ScriptNames : status[n] # PENDING => processed[n] = 1
    /\ Cardinality({n \in ScriptNames : status[n] = RUNNING}) <= 1

\* A status that changes goes from PENDING to one of the four others, or from
\* RUNNING to COMPLETED or FAILED.
StatusForward ==
    \A n \in ScriptNames :
        status'[n] # status[n] =>
            \/ status[n] = PENDING /\ status'[n] \in {RUNNING, COMPLETED, FAILED, SKIPPED}
            \/ status[n] = RUNNING /\ status'[n] \in {COMPLETED, FAILED}

\* C29: in one run of run_all every script is processed at most once, a
\* status leaves PENDING at most once, RUNNING is followed only by COMPLETED
\* or FAILED, a COMPLETED, FAILED or SKIPPED status never changes, and at
\* most one script is RUNNING at a time.
C29_StatusMovesForward ==
    [](ProcessedOnce) /\ [][StatusForward]_vars

\* The fourth script is RUNNING after the three before it have ended as
\* COMPLETED (two of them) and FAILED.
C29_Witness ==
    /\ status["fast-setup"] = COMPLETED
    /\ status["verify-de-ready"] = COMPLETED
    /\ status["import-concepts"] = FAILED
    /\ status["research-pipeline"] = RUNNING
    /\ status["export-graph"] = PENDING
    /\ \A n \in {"fast-setup", "verify-de-ready", "import-concepts", "research-pipeline"} :
           processed[n] = 1 /\ n \in executed

\* A --categories filter is given and script k of the table is not of a
\* selected category.
Unselected(k) == categories # {} /\ scripts[k].category \notin categories

\* Scripts of an unselected category are never processed: PENDING, never in
\* the loop, never executed.
UnselectedUntouched ==
    \A k \in DOMAIN scripts :
        Unselected(k) =>
            /\ status[scripts[k].name] = PENDING
            /\ processed[scripts[k].name] = 0
            /\ scripts[k].name \notin executed

\* A filter that leaves out the setup category.
SetupExcluded == categories # {} /\ "setup" \notin categories

\* run_all has returned.
RunOver == orch_pc \in {"returned", "done"}

\* C30, as stated: with a filter that leaves out 'setup', after the run every
\* script of a selected category is SKIPPED and none was executed; scripts of
\* unselected categories are untouched.
C30_Original_SelectedAllSkipped ==
    /\ UnselectedUntouched
    /\ SetupExcluded =>
          /\ executed = {}
          /\ RunOver => \A k \in DOMAIN scripts :
                            scripts[k].category \in categories
                                => status[scripts[k].name] = SKIPPED

\* C30: with a --categories filter, scripts of unselected categories are
\* never processed and keep PENDING; when the filter leaves out 'setup', no
\* script is executed at all and, after the run, every script of a selected
\* category is SKIPPED unless --skip-optional removed it from the run, in
\* which case it is still PENDING.
C30_SelectedSkippedUnlessRemoved ==
    /\ UnselectedUntouched
    /\ SetupExcluded =>
          /\ executed = {}
          /\ \A n \in ScriptNames : status[n] \notin {RUNNING, COMPLETED, FAILED}
          /\ RunOver => \A k \in DOMAIN scripts :
                            scripts[k].category \in categories
                                => status[scripts[k].name] =
                                      IF skip_optional /\ scripts[k].optional
                                      THEN PENDING ELSE SKIPPED

\* A run filtered to data and workflow is over: the three selected scripts
\* are SKIPPED, the setup and deployment scripts are PENDING.
C30_Witness ==
    /\ categories = {"data", "workflow"}
    /\ ~skip_optional
    /\ orch_pc = "done"
    /\ \A n \in {"import-concepts", "research-pipeline", "export-graph"} :
           status[n] = SKIPPED /\ processed[n] = 1
    /\ \A n \in {"fast-setup", "verify-de-ready", "deploy"} : status[n] = PENDING

\* A run filtered to setup is over: both setup scripts ran, the other four
\* were never processed.
C30_SetupOnlyWitness ==
    /\ categories = {"setup"}
    /\ orch_pc = "done"
    /\ status["fast-setup"] = COMPLETED
    /\ status["verify-de-ready"] = COMPLETED
    /\ \A k \in 3..Len(scripts) : status[scripts[k].name] = PENDING
====
